---- MODULE Spec2Model ----
(***************************************************************************)
(* Risk-gated execution pipeline of the adaptive trading system.           *)
(*                                                                         *)
(* The repository holds four components that keep state of their own:      *)
(*   - RiskBrain            (src/risk/risk_brain.py)                        *)
(*   - StrategyRouter       (src/strategy/strategy_router.py)               *)
(*   - ExecutionEngine with OrderReconciler                                 *)
(*                          (src/engine/execution_engine.py,                *)
(*                           src/engine/order_reconciliation.py)            *)
(*   - hars_main_loop       (src/scripts/run_bot.py)                        *)
(* They share no field: RiskBrain keeps kill_switch_active, the engine      *)
(* writes risk.state.kill_switch, the main loop keeps                       *)
(* RuntimeState.kill_switch.  The variable `unit` names the component       *)
(* whose entry points a run drives; the other components stay as            *)
(* constructed.                                                             *)
(*                                                                         *)
(* Numbers.  Money is in whole dollars.  Multipliers are in percent         *)
(* (0.3 is 30), so a product of three multipliers is in units of 1e-6.     *)
(* Volatility and its thresholds are in units of 0.01.                      *)
(***************************************************************************)
EXTENDS Integers, Sequences, FiniteSets, TLC

VARIABLES
    unit,        \* the component driven in this run
    rb,          \* RiskBrain: equity_peak, drawdown, kill_switch_active, cpm_*
    volatility,  \* RiskBrain.vol_model.volatility
    now,         \* time.time(), seconds
    rin,         \* the arguments of the call a run of one pure function makes (route, _map_status)
    risk_state,  \* ExecutionEngine.risk.state: kill_switch, risk_level, api_failure_streak
    ex_orders,   \* the orders the exchange holds
    tasks,       \* the execute calls in progress, one slot per caller
    orders,      \* OrderReconciler._orders: proposal_id -> TrackedOrder
    order_keys,  \* the keys of _orders in dict order
    rec,         \* the reconciliation loop: where it is in reconcile_once
    clock,       \* clock_fn(), seconds
    rt,          \* RuntimeState of the main loop: kill_switch, api_failure_streak
    last_failure_decay_ts,  \* hars_main_loop's local of that name
    loop,        \* where the main loop is in its tick
    stuck_after, \* OrderReconciler.stuck_after_sec, as given to the constructor
    lk,          \* OrderReconciler._lock and the tasks that call the reconciler's methods
    kill_event,  \* the asyncio.Event handed to OrderReconciler.run_forever: is it set
    api,         \* LighterApiClient: _client, _initialized, _init_lock and its callers
    ev           \* the operation that made the last step, its inputs and result

vars == <<unit, rb, volatility, now, rin, risk_state, ex_orders, tasks, orders,
          order_keys, rec, clock, rt, last_failure_decay_ts, loop, lk, stuck_after, api, kill_event, ev>>

engineVars == <<risk_state, ex_orders, tasks, orders, order_keys, rec, clock>>
loopVars == <<rt, last_failure_decay_ts, loop>>

Units == {"risk", "engine", "reconciler", "loop", "lock"}

Max(a, b) == IF a >= b THEN a ELSE b
Min(a, b) == IF a <= b THEN a ELSE b
Abs(a) == IF a >= 0 THEN a ELSE -a

-----------------------------------------------------------------------------
(* RiskBrain, src/risk/risk_brain.py                                        *)

max_position_per_symbol == 5
max_total_exposure == 10
daily_loss_limit == -1000
drawdown_soft_limit == -500
drawdown_hard_limit == -1500
cpm_trigger_level == -800
cpm_recovery_level == -300
cpm_size_multiplier == 30
cpm_min_duration == 3600

\* VolatilityModel thresholds 0.01 and 0.05, in units of 0.01
low_vol_threshold == 1
high_vol_threshold == 5

\* one unit of size, in the units of size * dd_mult * vol_mult * cpm_mult
MultScale == 100 * 100 * 100

\* time.time() advances in steps of half the CPM dwell time
MaxNowTicks == 2
NowStep == cpm_min_duration \div 2

Symbols == {"BTC", "ETH"}

\* values portfolio.total_pnl() returns
PnlLevels == {-1100, -1000, -900, -600, 0, 700}

\* values vol_model.update leaves in volatility (a standard deviation, >= 0)
VolLevels == {0, 3, 8}

\* proposals handed to evaluate_trade: dicts with symbol, direction, size
RiskProposals == [symbol : {"BTC"}, direction : {"LONG", "SHORT"}, size : {1, 6}]

\* values portfolio.exposure() returns: signed size per symbol
Book(b, e) == [s \in Symbols |-> IF s = "BTC" THEN b ELSE e]
Books == {Book(0, 0), Book(4, 0), Book(6, 0), Book(7, 2), Book(1, 8), Book(0, 10)}

RiskBrainInit ==
    [equity_peak |-> 0, drawdown |-> 0, kill_switch_active |-> FALSE,
     cpm_active |-> FALSE, cpm_start_time |-> "None"]

\* RiskBrain.update_drawdown, with equity = portfolio.total_pnl()
update_drawdown(b, equity) ==
    LET peak == IF equity > b.equity_peak THEN equity ELSE b.equity_peak
    IN  [b EXCEPT !.equity_peak = peak, !.drawdown = equity - peak]

\* update_cpm_state leaving the mode on recovery alone
update_cpm_state_no_dwell(b, t) ==
    LET enter == ~b.cpm_active /\ b.drawdown <= cpm_trigger_level
        b1 == IF enter
              THEN [b EXCEPT !.cpm_active = TRUE, !.cpm_start_time = t]
              ELSE b
        leave == b1.cpm_active /\ b1.drawdown >= cpm_recovery_level
    IN  IF leave THEN [b1 EXCEPT !.cpm_active = FALSE] ELSE b1

\* RiskBrain.update_cpm_state, with t = time.time()
update_cpm_state(b, t) ==
    LET enter == ~b.cpm_active /\ b.drawdown <= cpm_trigger_level
        b1 == IF enter
              THEN [b EXCEPT !.cpm_active = TRUE, !.cpm_start_time = t]
              ELSE b
        leave == /\ b1.cpm_active
                 /\ b1.drawdown >= cpm_recovery_level
                 /\ t - b1.cpm_start_time >= cpm_min_duration
    IN  IF leave THEN [b1 EXCEPT !.cpm_active = FALSE] ELSE b1

\* RiskBrain.cpm_multiplier, percent
cpm_multiplier(b) == IF b.cpm_active THEN cpm_size_multiplier ELSE 100

\* VolatilityModel.risk_multiplier, percent
risk_multiplier(vol) ==
    IF vol >= high_vol_threshold THEN 40
    ELSE IF vol >= low_vol_threshold THEN 70
    ELSE 100

\* drawdown_multiplier with the hard-limit branch returning 0 without
\* setting kill_switch_active
drawdown_multiplier_no_trip(b) ==
    IF b.drawdown <= drawdown_hard_limit
    THEN [rb |-> b, mult |-> 0]
    ELSE IF b.drawdown <= drawdown_soft_limit
    THEN LET progress == (100 * (drawdown_soft_limit - b.drawdown))
                             \div (drawdown_soft_limit - drawdown_hard_limit)
         IN  [rb |-> b, mult |-> Max(20, 100 + progress)]
    ELSE [rb |-> b, mult |-> 100]

\* RiskBrain.drawdown_multiplier: the multiplier in percent and the brain
\* after the call (the hard-limit branch sets kill_switch_active).
\* progress = (drawdown - soft) / (hard - soft), written with the positive
\* divisor soft - hard; exact for the drawdowns PnlLevels produce.
drawdown_multiplier(b) ==
    IF b.drawdown <= drawdown_hard_limit
    THEN [rb |-> [b EXCEPT !.kill_switch_active = TRUE], mult |-> 0]
    ELSE IF b.drawdown <= drawdown_soft_limit
    THEN LET progress == (100 * (drawdown_soft_limit - b.drawdown))
                             \div (drawdown_soft_limit - drawdown_hard_limit)
         IN  [rb |-> b, mult |-> Max(20, 100 + progress)]
    ELSE [rb |-> b, mult |-> 100]

\* the kill-switch test of evaluate_trade made only in capital preservation mode
kill_switch_rejects_in_cpm(b) == b.kill_switch_active /\ b.cpm_active

\* evaluate_trade, line 92: the kill-switch test
kill_switch_rejects(b) == b.kill_switch_active

\* the daily loss test passing a loss equal to the limit
daily_loss_breached_strict(total_pnl) == total_pnl < daily_loss_limit

\* evaluate_trade, line 96: total_pnl <= self.daily_loss_limit
daily_loss_breached(total_pnl) == total_pnl <= daily_loss_limit

RiskReturn(b, allow, size, reason, mult) ==
    [rb |-> b, allow |-> allow, size |-> size, reason |-> reason, combined_mult |-> mult]

\* RiskBrain.evaluate_trade.  total_pnl is what portfolio.total_pnl()
\* returns, positions what portfolio.exposure() returns, t is time.time().
\* size is returned in units of 1e-6 (MultScale is one unit of size).
evaluate_trade(b0, vol, proposal, total_pnl, positions, t) ==
    LET b1 == update_cpm_state(update_drawdown(b0, total_pnl), t)
    IN
    IF kill_switch_rejects(b1)
    THEN RiskReturn(b1, FALSE, 0, "Kill switch active", "none")
    ELSE IF daily_loss_breached(total_pnl)
    THEN RiskReturn([b1 EXCEPT !.kill_switch_active = TRUE], FALSE, 0,
                    "Daily loss limit breached", "none")
    ELSE
    LET dd == drawdown_multiplier(b1)
        b2 == dd.rb
        vol_mult == risk_multiplier(vol)
        cpm_mult == cpm_multiplier(b2)
        combined_mult == dd.mult * vol_mult * cpm_mult
        size1 == proposal.size * combined_mult
    IN
    IF size1 <= 0
    THEN RiskReturn(b2, FALSE, 0, "Risk scaling reduced size to zero", combined_mult)
    ELSE
    LET signed_size == IF proposal.direction = "LONG" THEN size1 ELSE -size1
        current_symbol_size == positions[proposal.symbol] * MultScale
        new_symbol_size == current_symbol_size + signed_size
        symbol_cap == max_position_per_symbol * MultScale
        allowed_size == symbol_cap - Abs(current_symbol_size)
        over_symbol == Abs(new_symbol_size) > symbol_cap
    IN
    IF over_symbol /\ allowed_size <= 0
    THEN RiskReturn(b2, FALSE, 0, "Symbol exposure limit reached", combined_mult)
    ELSE
    LET size2 == IF over_symbol THEN Min(size1, allowed_size) ELSE size1
        total_exposure == (Abs(positions["BTC"]) + Abs(positions["ETH"])) * MultScale
        total_cap == max_total_exposure * MultScale
        allowed == total_cap - total_exposure
        over_total == total_exposure + Abs(size2) > total_cap
    IN
    IF over_total /\ allowed <= 0
    THEN RiskReturn(b2, FALSE, 0, "Total exposure limit reached", combined_mult)
    ELSE RiskReturn(b2, TRUE, IF over_total THEN Min(size2, allowed) ELSE size2,
                    IF b2.cpm_active THEN "CPM" ELSE "NORMAL", combined_mult)

\* RiskBrain.update_market_state: vol_model.update stores the standard
\* deviation of the returns it is given (fewer than two returns: no change)
UpdateMarketState ==
    /\ unit = "risk"
    /\ \E v \in VolLevels :
         /\ volatility' = v
         /\ ev' = [op |-> "update_market_state", volatility |-> v]
    /\ UNCHANGED <<kill_event, api, stuck_after, lk, unit, rb, now, rin, engineVars, loopVars>>

UpdateDrawdown ==
    /\ unit = "risk"
    /\ \E pnl \in PnlLevels :
         /\ rb' = update_drawdown(rb, pnl)
         /\ ev' = [op |-> "update_drawdown", total_pnl |-> pnl]
    /\ UNCHANGED <<kill_event, api, stuck_after, lk, unit, volatility, now, rin, engineVars, loopVars>>

UpdateCpmState ==
    /\ unit = "risk"
    /\ rb' = update_cpm_state(rb, now)
    /\ ev' = [op |-> "update_cpm_state", was_active |-> rb.cpm_active]
    /\ UNCHANGED <<kill_event, api, stuck_after, lk, unit, volatility, now, rin, engineVars, loopVars>>

EvaluateTrade ==
    /\ unit = "risk"
    /\ \E proposal \in RiskProposals, pnl \in PnlLevels, positions \in Books :
         LET r == evaluate_trade(rb, volatility, proposal, pnl, positions, now)
         IN  /\ rb' = r.rb
             /\ ev' = [op |-> "evaluate_trade", proposal |-> proposal,
                       total_pnl |-> pnl, positions |-> positions,
                       kill_before |-> rb.kill_switch_active,
                       allow |-> r.allow, size |-> r.size, reason |-> r.reason,
                       combined_mult |-> r.combined_mult]
    /\ UNCHANGED <<kill_event, api, stuck_after, lk, unit, volatility, now, rin, engineVars, loopVars>>

\* time.time() moves on
TimePasses ==
    /\ unit \in {"risk", "loop"}
    /\ now < MaxNowTicks * NowStep
    /\ now' = now + NowStep
    /\ ev' = [op |-> "time"]
    /\ UNCHANGED <<kill_event, api, stuck_after, lk, unit, rb, volatility, rin, engineVars, loopVars>>

NextRisk ==
    \/ UpdateMarketState
    \/ UpdateDrawdown
    \/ UpdateCpmState
    \/ EvaluateTrade
    \/ TimePasses


-----------------------------------------------------------------------------
(* StrategyRouter, src/strategy/strategy_router.py                          *)

\* Python's None, where a record is expected
None == [is_none |-> TRUE]

HTFRegimes == {"TREND_UP", "TREND_DOWN", "BALANCED", "HIGH_VOLATILITY", "TRANSITION"}
BasketNames == {"BASKET_1", "BASKET_2", "BASKET_3"}
ModuleNames == {"MEAN_REVERSION", "TREND_CONTINUATION", "LIQUIDITY_RAID"}

\* build_strategy_registry: the keys of StrategyRouter.strategies
Registry == {"mean_reversion", "trend_continuation", "liquidity_raid"}

\* RouterConfig defaults
allow_liquidity_raid == TRUE
disable_liquidity_raid_in == {"HIGH_VOLATILITY", "TRANSITION"}
danger_transitions == {<<"TREND_UP", "HIGH_VOLATILITY">>, <<"BALANCED", "TRANSITION">>}
danger_priority == <<"mean_reversion">>
max_api_failure_streak_for_aggressive == 2
block_aggressive_on_vol_spike == TRUE
aggressive_strategies == {"liquidity_raid"}

\* RouterConfig.regime_priority.get(regime, [])
regime_priority(regime) ==
    CASE regime = "TREND_UP" -> <<"trend_continuation", "mean_reversion", "liquidity_raid">>
      [] regime = "TREND_DOWN" -> <<"trend_continuation", "mean_reversion", "liquidity_raid">>
      [] regime = "BALANCED" -> <<"mean_reversion", "trend_continuation", "liquidity_raid">>
      [] regime = "HIGH_VOLATILITY" -> <<"mean_reversion", "trend_continuation">>
      [] regime = "TRANSITION" -> <<"mean_reversion">>
      [] OTHER -> <<>>

\* A proposal a strategy builds; the tags are enum members unless a strategy
\* is faulty ("bogus" stands for a value that is no member of the enum).
RouterProposal(id, size, basket, module) ==
    [proposal_id |-> id, symbol |-> "BTC", direction |-> "LONG", size |-> size,
     entry_price |-> 100, stop_loss |-> 95, take_profit |-> 110,
     basket |-> basket, module |-> module, htf_regime |-> "BALANCED",
     auction_context |-> "AuctionContext"]

\* core.contracts.ExecutionProposal.validate, the frozen contract.  A tag
\* is an enum member when it is one of the enum's names; auction_context is
\* an AuctionContext, or the dict made of one that the engine is handed.
contract_validate(p) ==
    /\ p.direction \in {"LONG", "SHORT"}
    /\ p.size > 0
    /\ p.entry_price > 0
    /\ p.stop_loss > 0
    /\ p.take_profit > 0
    /\ p.basket \in BasketNames
    /\ p.module \in ModuleNames
    /\ p.htf_regime \in HTFRegimes
    /\ p.auction_context \in {"AuctionContext", "dict"}

\* strategy_router.ExecutionProposal.validate
router_validate(p) ==
    /\ p.direction \in {"LONG", "SHORT"}
    /\ p.size > 0
    /\ p.entry_price > 0
    /\ p.basket \in BasketNames
    /\ p.module \in ModuleNames
    /\ p.htf_regime \in HTFRegimes
    /\ p.auction_context = "AuctionContext"

\* the regime's list whatever the transition
priority_for_regime_no_danger(regime, prev_regime) == regime_priority(regime)

\* StrategyRouter._priority_for_regime
priority_for_regime(regime, prev_regime) ==
    IF prev_regime # "None" /\ <<prev_regime, regime>> \in danger_transitions
    THEN danger_priority
    ELSE regime_priority(regime)

\* the rule gates without the gates on the risk state
apply_rule_gates_regime_only(priority, regime, rs) ==
    IF (~allow_liquidity_raid) \/ regime \in disable_liquidity_raid_in
    THEN SelectSeq(priority, LAMBDA k : k # "liquidity_raid")
    ELSE priority

\* StrategyRouter._apply_rule_gates
apply_rule_gates(priority, regime, rs) ==
    LET p1 == IF (~allow_liquidity_raid) \/ regime \in disable_liquidity_raid_in
              THEN SelectSeq(priority, LAMBDA k : k # "liquidity_raid")
              ELSE priority
        p2 == IF block_aggressive_on_vol_spike /\ rs.vol_spike
              THEN SelectSeq(p1, LAMBDA k : k \notin aggressive_strategies)
              ELSE p1
        p3 == IF rs.api_failure_streak > max_api_failure_streak_for_aggressive
              THEN SelectSeq(p2, LAMBDA k : k \notin aggressive_strategies)
              ELSE p2
    IN  p3

\* the hard block without the CIRCUIT_BREAK level
hard_block_circuit_only(rs) == rs.kill_switch \/ rs.risk_level = "CIRCUIT"

\* route, line 260: the hard router block
hard_block(rs) == rs.kill_switch \/ rs.risk_level \in {"CIRCUIT", "CIRCUIT_BREAK"}

\* route, line 293: module-based constraint on a proposal
module_blocked(proposal, regime) ==
    proposal.module = "LIQUIDITY_RAID" /\ regime \in disable_liquidity_raid_in

\* route, line 297: the basket 3 soft block
soft_blocked(cfg, proposal) ==
    cfg.basket3_soft_block /\ proposal.basket = "BASKET_3"

\* the held candidate is lost
hold_fallback_lost(basket3_fallback, proposal) == basket3_fallback

\* route, line 298: the soft-blocked proposal becomes the held candidate
hold_fallback(basket3_fallback, proposal) == proposal

\* route, lines 273-303: the scan of the priority list from position i on.
\* proposals[k] is what strategy k's propose returns for this call; called
\* lists the strategies whose propose was called, in order.
RECURSIVE scan(_, _, _, _, _, _, _)
scan(cfg, proposals, regime, priority, i, basket3_fallback, called) ==
    IF i > Len(priority)
    THEN [result |-> basket3_fallback, called |-> called]
    ELSE
    LET strat_key == priority[i]
    IN
    IF strat_key \notin Registry
    THEN scan(cfg, proposals, regime, priority, i + 1, basket3_fallback, called)
    ELSE
    LET proposal == proposals[strat_key]
        called1 == Append(called, strat_key)
    IN
    IF proposal = None
    THEN scan(cfg, proposals, regime, priority, i + 1, basket3_fallback, called1)
    ELSE IF ~router_validate(proposal)
    THEN scan(cfg, proposals, regime, priority, i + 1, basket3_fallback, called1)
    ELSE IF module_blocked(proposal, regime)
    THEN scan(cfg, proposals, regime, priority, i + 1, basket3_fallback, called1)
    ELSE IF soft_blocked(cfg, proposal)
    THEN scan(cfg, proposals, regime, priority, i + 1,
              hold_fallback(basket3_fallback, proposal), called1)
    ELSE [result |-> proposal, called |-> called1]

\* StrategyRouter.route
route(cfg, proposals, regime, rs, prev_regime) ==
    IF hard_block(rs)
    THEN [result |-> None, called |-> <<>>]
    ELSE IF regime \in cfg.no_trade_regimes
    THEN [result |-> None, called |-> <<>>]
    ELSE scan(cfg, proposals, regime,
              apply_rule_gates(priority_for_regime(regime, prev_regime), regime, rs),
              1, None, <<>>)

\* What each strategy's propose may return in one route call
MeanReversionOutputs ==
    {None,
     RouterProposal("mr-1", 1, "BASKET_1", "MEAN_REVERSION"),
     RouterProposal("mr-3", 1, "BASKET_3", "MEAN_REVERSION"),
     RouterProposal("mr-bad", 0, "BASKET_1", "MEAN_REVERSION")}
TrendContinuationOutputs ==
    {None,
     RouterProposal("tc-2", 1, "BASKET_2", "TREND_CONTINUATION"),
     RouterProposal("tc-3", 1, "BASKET_3", "TREND_CONTINUATION"),
     RouterProposal("tc-bad", 1, "bogus", "TREND_CONTINUATION"),
     RouterProposal("tc-lr", 1, "BASKET_1", "LIQUIDITY_RAID")}
LiquidityRaidOutputs ==
    {None,
     RouterProposal("lr-1", 1, "BASKET_1", "LIQUIDITY_RAID"),
     RouterProposal("lr-3", 1, "BASKET_3", "LIQUIDITY_RAID")}

ProposalTables ==
    {[k \in Registry |-> CASE k = "mean_reversion" -> m
                           [] k = "trend_continuation" -> t
                           [] k = "liquidity_raid" -> l] :
        m \in MeanReversionOutputs, t \in TrendContinuationOutputs,
        l \in LiquidityRaidOutputs}

\* RiskState values handed to route
RouterRiskStates ==
    [kill_switch : BOOLEAN, risk_level : {"GREEN", "CIRCUIT", "CIRCUIT_BREAK"},
     vol_spike : BOOLEAN, api_failure_streak : {2, 3}]

\* RouterConfig values: the defaults, with the two switches either way
RouterConfigs ==
    [basket3_soft_block : BOOLEAN, no_trade_regimes : {{}, {"TRANSITION"}}]

\* the regimes route is called with: the members of HTFRegime, and one
\* that the configured regime_priority has no entry for
RouterRegimes == HTFRegimes \cup {"UNLISTED"}

RouterInputs ==
    [cfg : RouterConfigs, proposals : ProposalTables, regime : RouterRegimes,
     risk_state : RouterRiskStates, prev_regime : {"None", "TREND_UP", "BALANCED"}]

\* one call of StrategyRouter.route on the inputs of this run
Route ==
    /\ unit = "router"
    /\ ev.op = "init"
    /\ LET r == route(rin.cfg, rin.proposals, rin.regime, rin.risk_state, rin.prev_regime)
       IN  ev' = [op |-> "route", result |-> r.result, called |-> r.called]
    /\ UNCHANGED <<kill_event, api, stuck_after, lk, unit, rb, volatility, now, rin, engineVars, loopVars>>

NextRouter == Route

-----------------------------------------------------------------------------
(* ExecutionEngine, src/engine/execution_engine.py, with the risk           *)
(* collaborator it calls (assess_proposal, register_api_success,            *)
(* register_api_failure, state) and the exchange behind LighterApiClient    *)

\* Sizes of the engine are in units of 0.001: size 1000 is 1.0, a fill of
\* 504 is 0.504.  allocation_multiplier is in percent, so
\* proposal.size * allocation_multiplier is allocated_size in units of 1e-5.

\* the callers of execute: in unit "engine" two concurrent callers and no
\* reconciliation loop, in unit "reconciler" the one trading loop next to
\* the reconciliation loop, in unit "tracking" two concurrent callers next
\* to the reconciliation loop
Tasks == {1, 2}
CallersOf(u) ==
    CASE u = "engine" -> Tasks
      [] u = "reconciler" -> {1}
      [] u = "tracking" -> Tasks
      [] OTHER -> {}

\* the units in which the reconciliation loop runs
ReconcilerUnits == {"reconciler", "tracking"}

\* the configured number of consecutive API failures at which the risk
\* engine trips the kill-switch
api_failure_threshold == 2

\* execution_engine.ExecutionProposal values handed to execute
EngineProposal(id, direction, size) ==
    [proposal_id |-> id, symbol |-> "BTC", direction |-> direction, size |-> size,
     entry_price |-> 100, stop_loss |-> 95, take_profit |-> 110,
     basket |-> "BASKET_1", module |-> "MEAN_REVERSION", htf_regime |-> "BALANCED",
     auction_context |-> "dict"]

EngineProposals ==
    {EngineProposal("p1", "LONG", 1000),
     EngineProposal("p2", "SHORT", 1000),
     EngineProposal("p3", "LONG", 0),
     [EngineProposal("p4", "SHORT", 1000) EXCEPT !.stop_loss = 0]}

\* the proposals the callers of a unit hand to execute: for the engine
\* alone p1, p3 and p4, next to the reconciler p2 and p3
ProposalsOf(u) ==
    IF u = "engine" THEN {p \in EngineProposals : p.proposal_id # "p2"}
    ELSE {p \in EngineProposals : p.proposal_id \in {"p2", "p3"}}

\* the proposals caller t hands to execute: in unit "tracking" the two
\* callers execute proposals with distinct proposal_ids, p1 and p2
ProposalsFor(u, t) ==
    IF u = "tracking"
    THEN {p \in EngineProposals : p.proposal_id = (IF t = 1 THEN "p1" ELSE "p2")}
    ELSE ProposalsOf(u)

ProposalIds == {p.proposal_id : p \in EngineProposals}

\* execution_engine.ExecutionProposal.validate
engine_validate(p) ==
    /\ p.direction \in {"LONG", "SHORT"}
    /\ p.size > 0
    /\ p.symbol # ""
    /\ p.proposal_id # ""
    /\ p.basket # "" /\ p.module # "" /\ p.htf_regime # ""
    /\ p.auction_context = "dict"

\* multipliers an allowing decision may carry, percent
AllocationMultipliers == {0, 50, 100}

\* filled_size values the adapter may report, units of 0.001
Fills == {0, 504, 520, 1000}

RiskStateInit == [kill_switch |-> FALSE, risk_level |-> "GREEN", api_failure_streak |-> 0]

\* The decisions risk.assess_proposal may return in risk state rs:
\* rejection while the kill-switch is on or the failure streak is at the
\* threshold, else an allowing decision with a multiplier in [0,1].
assess_proposal(rs) ==
    IF rs.kill_switch
    THEN {[allow |-> FALSE, allocation_multiplier |-> 0, reason |-> "KILL_SWITCH_ACTIVE"]}
    ELSE IF rs.api_failure_streak >= api_failure_threshold
    THEN {[allow |-> FALSE, allocation_multiplier |-> 0, reason |-> "PAUSE"]}
    ELSE {[allow |-> TRUE, allocation_multiplier |-> m, reason |-> "OK"] :
             m \in AllocationMultipliers}

\* risk.register_api_failure: the streak grows, and at the threshold the
\* kill-switch trips
register_api_failure(rs) ==
    LET streak == rs.api_failure_streak + 1
    IN  [rs EXCEPT !.api_failure_streak = streak,
                   !.kill_switch = rs.kill_switch \/ streak >= api_failure_threshold]

\* risk.register_api_success: the streak decays by one
register_api_success(rs) ==
    [rs EXCEPT !.api_failure_streak = Max(0, rs.api_failure_streak - 1)]

\* execute, line 116, with the proposal id in place of the symbol
client_order_id_symbol(proposal) == proposal.symbol

\* execute, line 116: the idempotency key
client_order_id(proposal) == proposal.proposal_id

\* the amount without its sign
signed_amount_unsigned(proposal, allocated_size) == allocated_size

\* execute, line 117: the signed amount, allocated_size in units of 1e-5
signed_amount(proposal, allocated_size) ==
    IF proposal.direction = "LONG" THEN allocated_size ELSE -allocated_size

\* execute, line 112: allocated_size < 1e-8 (allocated_size is a whole
\* number of 1e-5 here)
below_min_size(allocated_size) == allocated_size < 1

\* the allocation check with the tolerance left out
allocation_violated_any_excess(executed_size, allocated_size) ==
    executed_size * 100 > allocated_size

\* execute, lines 137-139: executed_size > allocated_size * (1 + 0.01), with
\* executed_size in units of 0.001 and allocated_size in units of 1e-5
allocation_violated(executed_size, allocated_size) ==
    executed_size * 100 * 100 > allocated_size * 101

\* execute, lines 145-146
trip_kill_switch(rs) == [rs EXCEPT !.kill_switch = TRUE, !.risk_level = "CIRCUIT"]

\* The exchange: market_order is idempotent on client_order_id.  ex_orders is
\* the sequence of orders the exchange holds, an order's id is its place in
\* it; for_proposal records the proposal whose execute sent the order.
ExchangeFind(coid) == {i \in 1..Len(ex_orders) : ex_orders[i].client_order_id = coid}

ExchangeAccept(coid, pid, amount) ==
    IF ExchangeFind(coid) # {}
    THEN ex_orders
    ELSE Append(ex_orders, [client_order_id |-> coid, for_proposal |-> pid])

ExchangeOrderId(orders_at_exchange, coid) ==
    CHOOSE i \in 1..Len(orders_at_exchange) : orders_at_exchange[i].client_order_id = coid

IdleTask == [pc |-> "idle"]

\* OrderReconciler.track_submitted: a new TrackedOrder under proposal_id
TrackedOrder(proposal_id, symbol, coid, order_id) ==
    [proposal_id |-> proposal_id, symbol |-> symbol, client_order_id |-> coid,
     order_id |-> order_id, state |-> "SUBMITTED", last_status |-> "UNKNOWN",
     filled_size |-> 0, avg_price |-> 0, last_update_ts |-> 0]

\* the assignment writing the new record over every tracked record as well
track_submitted_overwrites_all(proposal_id, symbol, coid, order_id) ==
    /\ orders' = [p \in ProposalIds |->
                     IF p = proposal_id \/ orders[p] # None
                     THEN TrackedOrder(proposal_id, symbol, coid, order_id)
                     ELSE orders[p]]
    /\ order_keys' = IF orders[proposal_id] = None
                     THEN Append(order_keys, proposal_id)
                     ELSE order_keys

\* the dict assignment self._orders[proposal_id] = ...: a new key goes last,
\* an existing key keeps its place
track_submitted(proposal_id, symbol, coid, order_id) ==
    /\ orders' = [orders EXCEPT ![proposal_id] = TrackedOrder(proposal_id, symbol, coid, order_id)]
    /\ order_keys' = IF orders[proposal_id] = None
                     THEN Append(order_keys, proposal_id)
                     ELSE order_keys

\* execute returns result (None or an ExecutionResult); why names the exit
ExecReturn(t, proposal, why, result) ==
    [op |-> "execute_return", task |-> t, proposal_id |-> proposal.proposal_id,
     why |-> why, result |-> result, store |-> "not_called", cancel |-> "not_called",
     order_id |-> 0]

\* the record with the allocated size taken from the proposal's size
ExecutionResult_full_size(proposal, coid, order_id, allocated_size, executed_size, allocation_multiplier) ==
    [proposal_id |-> proposal.proposal_id,
     symbol |-> proposal.symbol,
     client_order_id |-> coid,
     order_id |-> order_id,
     allocated_size |-> proposal.size * 100,
     executed_size |-> executed_size,
     allocation_multiplier |-> allocation_multiplier,
     frozen |-> [basket |-> proposal.basket, module |-> proposal.module,
                 htf_regime |-> proposal.htf_regime,
                 auction_context |-> proposal.auction_context]]

\* execute, lines 156-173: the record built from the proposal and the order
ExecutionResult(proposal, coid, order_id, allocated_size, executed_size, allocation_multiplier) ==
    [proposal_id |-> proposal.proposal_id,
     symbol |-> proposal.symbol,
     client_order_id |-> coid,
     order_id |-> order_id,
     allocated_size |-> allocated_size,
     executed_size |-> executed_size,
     allocation_multiplier |-> allocation_multiplier,
     frozen |-> [basket |-> proposal.basket, module |-> proposal.module,
                 htf_regime |-> proposal.htf_regime,
                 auction_context |-> proposal.auction_context]]

\* how the store callback may end: there is none, it stored the record, it
\* raised when called, or the coroutine it returned raised when awaited
StoreOutcomes == {"no_store_fn", "stored", "raised", "raised_awaited"}

\* execute returning nothing when the store callback raised
after_store_fatal(outcome, res) ==
    IF outcome \in {"raised", "raised_awaited"} THEN None ELSE res

\* execute, lines 176-184: an exception of store_fn is logged, res is
\* returned whatever the callback did
after_store(outcome, res) == res

\* execute, lines 99-120: from the call to the await of market_order
ExecuteCall(t) ==
    /\ t \in CallersOf(unit)
    /\ tasks[t].pc = "idle"
    /\ \E proposal \in ProposalsFor(unit, t) :
         IF ~engine_validate(proposal)
         THEN /\ ev' = ExecReturn(t, proposal, "invalid", None)
              /\ UNCHANGED tasks
         ELSE \E decision \in assess_proposal(risk_state) :
              IF ~decision.allow
              THEN /\ ev' = ExecReturn(t, proposal, "risk", None)
                   /\ UNCHANGED tasks
              ELSE LET allocated_size == proposal.size * decision.allocation_multiplier
                   IN  IF below_min_size(allocated_size)
                       THEN /\ ev' = ExecReturn(t, proposal, "tiny", None)
                            /\ UNCHANGED tasks
                       ELSE /\ tasks' = [tasks EXCEPT ![t] =
                                   [pc |-> "market_order", proposal |-> proposal,
                                    allocation_multiplier |-> decision.allocation_multiplier,
                                    allocated_size |-> allocated_size,
                                    client_order_id |-> client_order_id(proposal)]]
                            /\ ev' = [op |-> "market_order", task |-> t,
                                      proposal_id |-> proposal.proposal_id,
                                      client_order_id |-> client_order_id(proposal),
                                      allocation_multiplier |-> decision.allocation_multiplier,
                                      allocated_size |-> allocated_size,
                                      amount |-> signed_amount(proposal, allocated_size)]
    /\ UNCHANGED <<kill_event, api, stuck_after, lk, loopVars, unit, rb, volatility, now, rin, risk_state, ex_orders, orders,
                   order_keys, rec, clock>>

\* execute, lines 120-173: market_order returned an order
MarketOrderReturns(t) ==
    /\ t \in CallersOf(unit)
    /\ tasks[t].pc = "market_order"
    /\ \E filled_size \in Fills :
         LET me == tasks[t]
             proposal == me.proposal
             accepted == ExchangeAccept(me.client_order_id, proposal.proposal_id,
                                        signed_amount(proposal, me.allocated_size))
             order_id == ExchangeOrderId(accepted, me.client_order_id)
             rs1 == register_api_success(risk_state)
             executed_size == Abs(filled_size)
         IN  /\ ex_orders' = accepted
             /\ IF allocation_violated(executed_size, me.allocated_size)
                THEN /\ risk_state' = trip_kill_switch(rs1)
                     /\ tasks' = [tasks EXCEPT ![t] =
                            [pc |-> "cancel_order", proposal |-> proposal, order_id |-> order_id,
                             allocated_size |-> me.allocated_size,
                             executed_size |-> executed_size]]
                     /\ ev' = [op |-> "allocation_violation", task |-> t,
                               proposal_id |-> proposal.proposal_id,
                               allocated_size |-> me.allocated_size,
                               executed_size |-> executed_size, order_id |-> order_id]
                     /\ UNCHANGED <<orders, order_keys>>
                ELSE /\ risk_state' = rs1
                     /\ track_submitted(proposal.proposal_id, proposal.symbol,
                                        me.client_order_id, order_id)
                     /\ tasks' = [tasks EXCEPT ![t] =
                            [pc |-> "store", proposal |-> proposal,
                             res |-> ExecutionResult(proposal, me.client_order_id, order_id,
                                        me.allocated_size, executed_size,
                                        me.allocation_multiplier)]]
                     /\ ev' = [op |-> "track_submitted", task |-> t,
                               proposal_id |-> proposal.proposal_id, order_id |-> order_id]
    /\ UNCHANGED <<kill_event, api, stuck_after, lk, loopVars, unit, rb, volatility, now, rin, rec, clock>>

\* execute, lines 120-134: market_order returned an order whose filled_size
\* or avg_price is present but not a number (LighterApiClient checks only
\* that the fields are there): float() raises ValueError outside the try,
\* after register_api_success, and the exception leaves execute
MarketOrderReturnsMalformed(t) ==
    /\ t \in CallersOf(unit)
    /\ tasks[t].pc = "market_order"
    /\ LET me == tasks[t]
       IN  /\ ex_orders' = ExchangeAccept(me.client_order_id, me.proposal.proposal_id,
                               signed_amount(me.proposal, me.allocated_size))
           /\ risk_state' = register_api_success(risk_state)
           /\ tasks' = [tasks EXCEPT ![t] = IdleTask]
           /\ ev' = [op |-> "execute_raised", task |-> t,
                     proposal_id |-> me.proposal.proposal_id, exception |-> "ValueError"]
    /\ UNCHANGED <<kill_event, api, stuck_after, lk, loopVars, unit, rb, volatility, now, rin, orders, order_keys, rec, clock>>

\* the handlers registering a success after the failure
on_market_order_failure_then_success(rs) == register_api_success(register_api_failure(rs))

\* execute, lines 122-129: either handler registers the failure with the
\* risk collaborator, once
on_market_order_failure(rs) == register_api_failure(rs)

\* execute, lines 122-129: market_order raised; the exchange may or may not
\* have taken the order before the failure
MarketOrderFails(t) ==
    /\ t \in CallersOf(unit)
    /\ tasks[t].pc = "market_order"
    /\ LET me == tasks[t]
       IN  /\ \/ UNCHANGED ex_orders
              \/ ex_orders' = ExchangeAccept(me.client_order_id, me.proposal.proposal_id,
                                  signed_amount(me.proposal, me.allocated_size))
           /\ risk_state' = on_market_order_failure(risk_state)
           /\ tasks' = [tasks EXCEPT ![t] = IdleTask]
           /\ ev' = ExecReturn(t, me.proposal, "api_failure", None)
    /\ UNCHANGED <<kill_event, api, stuck_after, lk, loopVars, unit, rb, volatility, now, rin, orders, order_keys, rec, clock>>

\* execute, lines 175-184: the store callback, if any, and the return
StoreEnds(t) ==
    /\ t \in CallersOf(unit)
    /\ tasks[t].pc = "store"
    /\ \E outcome \in StoreOutcomes :
         ev' = [ExecReturn(t, tasks[t].proposal, "ok", after_store(outcome, tasks[t].res))
                   EXCEPT !.store = outcome]
    /\ tasks' = [tasks EXCEPT ![t] = IdleTask]
    /\ UNCHANGED <<kill_event, api, stuck_after, lk, loopVars, unit, rb, volatility, now, rin, risk_state, ex_orders, orders,
                   order_keys, rec, clock>>

\* how the cancel_order call may end
CancelOutcomes == {"cancelled", "raised"}

\* execute letting the exception of cancel_order out
after_cancel_fatal(outcome) ==
    IF outcome = "raised" THEN [is_none |-> FALSE, exception |-> "APIError"] ELSE None

\* execute, lines 147-151: an exception of cancel_order is swallowed, and
\* None is returned
after_cancel(outcome) == None

\* execute, lines 147-151: cancel_order returned or raised
CancelOrderEnds(t) ==
    /\ t \in CallersOf(unit)
    /\ tasks[t].pc = "cancel_order"
    /\ tasks' = [tasks EXCEPT ![t] = IdleTask]
    /\ \E outcome \in CancelOutcomes :
         ev' = [ExecReturn(t, tasks[t].proposal, "allocation_violation", after_cancel(outcome))
                   EXCEPT !.cancel = outcome, !.order_id = tasks[t].order_id]
    /\ UNCHANGED <<kill_event, api, stuck_after, lk, loopVars, unit, rb, volatility, now, rin, risk_state, ex_orders, orders,
                   order_keys, rec, clock>>

-----------------------------------------------------------------------------
(* OrderReconciler, src/engine/order_reconciliation.py                      *)

poll_interval == 2
stuck_after_sec == 30

\* values of stuck_after_sec a reconciler is constructed with: the default,
\* and a negative one, under which every poll of an open order finds it stuck
StuckAfterSecs == {stuck_after_sec, 0 - 1}

\* clock_fn() advances in steps of a little more than the stuck timeout
MaxClockTicks == 1
ClockStep == stuck_after_sec + 1

\* str.upper, on the letters a-z
LowerLetters == "abcdefghijklmnopqrstuvwxyz"
UpperLetters == "ABCDEFGHIJKLMNOPQRSTUVWXYZ"

upper_char(c) ==
    IF \E i \in 1..Len(LowerLetters) : SubSeq(LowerLetters, i, i) = c
    THEN LET i == CHOOSE j \in 1..Len(LowerLetters) : SubSeq(LowerLetters, j, j) = c
         IN  SubSeq(UpperLetters, i, i)
    ELSE c

RECURSIVE upper(_)
upper(s) ==
    IF s = "" THEN "" ELSE upper_char(SubSeq(s, 1, 1)) \o upper(SubSeq(s, 2, Len(s)))

\* Python's  sub in s
contains(s, sub) ==
    \E i \in 1..(Len(s) - Len(sub) + 1) : SubSeq(s, i, i + Len(sub) - 1) = sub

\* _map_status with the PART test ahead of the FILL test
map_status_part_first(status, filled) ==
    LET s == upper(status)
    IN  IF contains(s, "CANCEL") THEN "CANCELLED"
        ELSE IF contains(s, "REJECT") THEN "REJECTED"
        ELSE IF contains(s, "PART") THEN "PARTIAL"
        ELSE IF contains(s, "FILL") THEN "FILLED"
        ELSE IF filled > 0 THEN "PARTIAL"
        ELSE IF s \in {"OPEN", "NEW", "PENDING", "LIVE", "WORKING"} THEN "SUBMITTED"
        ELSE "UNKNOWN"

\* OrderReconciler._map_status
map_status(status, filled) ==
    LET s == upper(status)
    IN  IF contains(s, "CANCEL") THEN "CANCELLED"
        ELSE IF contains(s, "REJECT") THEN "REJECTED"
        ELSE IF contains(s, "FILL") THEN "FILLED"
        ELSE IF contains(s, "PART") THEN "PARTIAL"
        ELSE IF filled > 0 THEN "PARTIAL"
        ELSE IF s \in {"OPEN", "NEW", "PENDING", "LIVE", "WORKING"} THEN "SUBMITTED"
        ELSE "UNKNOWN"

\* the status strings _map_status is called on: str(...) of whatever the
\* exchange reports, in any letter case, with none, one or several of the
\* words the function looks for
StatusStrings ==
    {"", "open", "OPEN", "Open", "new", "New", "pending", "PENDING", "live",
     "working", "Working", "opened", "renewed",
     "cancelled", "CANCELED", "Canceled", "cancel_rejected", "pending_cancel",
     "partially_filled_then_cancelled",
     "rejected", "REJECTED", "Rejected", "reject_fill", "part_rejected",
     "filled", "FILLED", "Filled", "fill", "unfilled",
     "PARTIALLY_FILLED", "partially_filled", "Partially_Filled",
     "partial", "PARTIAL", "Partial", "part",
     "expired", "unknown", "STUCK", "stuck", "None", "done"}

\* the filled sizes it is called on (abs(float(...)) is never negative)
FilledSizes == {0, 504}

MapStatusInputs == [status : StatusStrings, filled : FilledSizes]

\* what get_order_by_client_id may return for a tracked order: status,
\* filled_size (units of 0.001) and avg_price
PollAnswers ==
    {[status |-> "open", filled_size |-> 0, avg_price |-> 0],
     [status |-> "open", filled_size |-> 504, avg_price |-> 100],
     [status |-> "PARTIALLY_FILLED", filled_size |-> 504, avg_price |-> 100],
     [status |-> "filled", filled_size |-> 504, avg_price |-> 100]}

\* the answers drawn in a unit: next to two concurrent callers the order is
\* reported open and unfilled, or filled
PollAnswersOf(u) ==
    IF u = "tracking" THEN {a \in PollAnswers : a.status = "filled" \/ a.filled_size = 0}
    ELSE PollAnswers

\* the update with STUCK kept once it is set
reconcile_update_stuck_terminal(cur, raw, now_ts) ==
    LET status == upper(raw.status)
        filled == Abs(raw.filled_size)
        cur1 == [cur EXCEPT !.last_status = status,
                            !.filled_size = filled,
                            !.avg_price = raw.avg_price,
                            !.last_update_ts = now_ts,
                            !.order_id = IF cur.order_id # 0 THEN cur.order_id
                                         ELSE raw.order_id]
    IN  IF /\ cur1.state \in {"SUBMITTED", "PARTIAL"}
           /\ (now_ts - cur1.last_update_ts) > stuck_after
        THEN [cur1 EXCEPT !.state = "STUCK"]
        ELSE IF cur1.state = "STUCK" THEN cur1
        ELSE [cur1 EXCEPT !.state = map_status(status, filled)]

\* reconcile_once, lines 79-99: the update of the tracked order cur from the
\* exchange's answer raw, in the order the code makes its assignments
\* (order ids are places in ex_orders, from 1; 0 stands for a missing id)
reconcile_update(cur, raw, now_ts) ==
    LET status == upper(raw.status)
        filled == Abs(raw.filled_size)
        avg == raw.avg_price
        new_state == map_status(status, filled)
        cur1 == [cur EXCEPT !.last_status = status,
                            !.filled_size = filled,
                            !.avg_price = avg,
                            !.last_update_ts = now_ts,
                            !.order_id = IF cur.order_id # 0 THEN cur.order_id
                                         ELSE raw.order_id]
    IN  IF /\ cur1.state \in {"SUBMITTED", "PARTIAL"}
           /\ (now_ts - cur1.last_update_ts) > stuck_after
        THEN [cur1 EXCEPT !.state = "STUCK"]
        ELSE [cur1 EXCEPT !.state = new_state]

\* reconcile_once, lines 85-99, tripping the kill-switch on a filled order
reconcile_risk_effect_trips(rs, new) ==
    IF new.state = "FILLED" THEN trip_kill_switch(rs) ELSE rs

\* reconcile_once, lines 85-99: the update step writes the tracked record
\* only; the reconciler holds no reference to the risk collaborator
reconcile_risk_effect(rs, new) == rs

IdleReconciler == [pc |-> "idle"]

\* reconcile_once, line 72: the snapshot taken by all(), in dict order
Snapshot ==
    [i \in 1..Len(order_keys) |->
        [proposal_id |-> order_keys[i],
         client_order_id |-> orders[order_keys[i]].client_order_id]]

\* the loop going on whatever kill_event is
loop_continues_always(kill) == TRUE

\* run_forever, line 105: while not kill_event.is_set()
loop_continues(kill) == ~kill

\* run_forever, lines 105-107, and reconcile_once up to its first await of
\* get_order_by_client_id; rec.pc = "idle" is the loop before its first
\* test of kill_event or in asyncio.sleep(poll_interval)
ReconcileOnce ==
    /\ unit \in ReconcilerUnits
    /\ rec.pc = "idle"
    /\ loop_continues(kill_event)
    /\ rec' = IF Snapshot = <<>> THEN IdleReconciler
              ELSE [pc |-> "polling", now_ts |-> clock, pending |-> Snapshot]
    /\ ev' = [op |-> "reconcile_once", now_ts |-> clock, tracked |-> Len(order_keys)]
    /\ UNCHANGED <<kill_event, api, stuck_after, lk, loopVars, unit, rb, volatility, now, rin, risk_state, ex_orders, tasks,
                   orders, order_keys, clock>>

\* reconcile_once, line 73: the for loop goes to the next order of the
\* snapshot, or the pass returns
next_item(r) == IF Len(r.pending) = 1 THEN IdleReconciler
                ELSE [r EXCEPT !.pending = Tail(r.pending)]

AfterPoll == next_item(rec)

\* the exception of a query ending the pass
reconcile_error_aborts(r) == IdleReconciler

\* reconcile_once, lines 101-102: the exception of a query is logged inside
\* the loop body, and the loop goes on
reconcile_error(r) == next_item(r)

\* an empty answer stamping the record with the time of the pass
reconcile_no_order_touches(cur, now_ts) == [cur EXCEPT !.last_update_ts = now_ts]

\* reconcile_once, lines 76-77: if not raw: continue, before any assignment
reconcile_no_order(cur, now_ts) == cur

\* reconcile_once, lines 75-99: get_order_by_client_id answered with an order
PollReturnsOrder ==
    /\ unit \in ReconcilerUnits
    /\ rec.pc = "polling"
    /\ \E answer \in PollAnswersOf(unit) :
         LET t == Head(rec.pending)
             cur == orders[t.proposal_id]
             raw == [status |-> answer.status, filled_size |-> answer.filled_size,
                     avg_price |-> answer.avg_price, order_id |-> cur.order_id]
             new == reconcile_update(cur, raw, rec.now_ts)
         IN  /\ orders' = [orders EXCEPT ![t.proposal_id] = new]
             /\ risk_state' = reconcile_risk_effect(risk_state, new)
             /\ ev' = [op |-> "poll", proposal_id |-> t.proposal_id, answer |-> "order",
                       was |-> cur.state,
                       status |-> answer.status, filled_size |-> answer.filled_size,
                       now_ts |-> rec.now_ts]
    /\ rec' = AfterPoll
    /\ UNCHANGED <<kill_event, api, stuck_after, lk, loopVars, unit, rb, volatility, now, rin, ex_orders, tasks,
                   order_keys, clock>>

\* reconcile_once, lines 76-77 and 101-102: the exchange has no such order,
\* or the query raised
PollReturnsNothing ==
    /\ unit \in ReconcilerUnits
    /\ rec.pc = "polling"
    /\ \E answer \in {"none", "error"} :
         LET t == Head(rec.pending)
         IN  /\ ev' = [op |-> "poll", proposal_id |-> t.proposal_id,
                       answer |-> answer, now_ts |-> rec.now_ts]
             /\ IF answer = "error"
                THEN /\ rec' = reconcile_error(rec)
                     /\ UNCHANGED orders
                ELSE /\ rec' = AfterPoll
                     /\ orders' = [orders EXCEPT ![t.proposal_id] =
                                       reconcile_no_order(orders[t.proposal_id], rec.now_ts)]
    /\ UNCHANGED <<kill_event, api, stuck_after, lk, loopVars, unit, rb, volatility, now, rin, risk_state, ex_orders, tasks,
                   order_keys, clock>>

\* the owner of kill_event sets it, at any moment
SetKillEvent ==
    /\ unit = "reconciler"
    /\ ~kill_event
    /\ kill_event' = TRUE
    /\ ev' = [op |-> "set_kill_event", during |-> rec.pc]
    /\ UNCHANGED <<api, stuck_after, lk, loopVars, unit, rb, volatility, now, rin, engineVars>>

\* run_forever, line 105: the test after the sleep finds kill_event set, and
\* run_forever returns
RunForeverExits ==
    /\ unit = "reconciler"
    /\ rec.pc = "idle"
    /\ ~loop_continues(kill_event)
    /\ rec' = [pc |-> "exited"]
    /\ ev' = [op |-> "run_forever_exit", after |-> ev.op]
    /\ UNCHANGED <<kill_event, api, stuck_after, lk, loopVars, unit, rb, volatility, now, rin,
                   risk_state, ex_orders, tasks, orders, order_keys, clock>>

\* clock_fn() moves on
ClockPasses ==
    /\ unit = "reconciler"
    /\ clock < MaxClockTicks * ClockStep
    /\ clock' = clock + ClockStep
    /\ ev' = [op |-> "clock"]
    /\ UNCHANGED <<kill_event, api, stuck_after, lk, loopVars, unit, rb, volatility, now, rin, risk_state, ex_orders, tasks,
                   orders, order_keys, rec>>

NextEngine ==
    \/ \E t \in Tasks : ExecuteCall(t)
    \/ \E t \in Tasks : MarketOrderReturns(t)
    \/ \E t \in Tasks : MarketOrderReturnsMalformed(t)
    \/ \E t \in Tasks : MarketOrderFails(t)
    \/ \E t \in Tasks : StoreEnds(t)
    \/ \E t \in Tasks : CancelOrderEnds(t)

NextReconciler ==
    \/ ReconcileOnce
    \/ PollReturnsOrder
    \/ PollReturnsNothing
    \/ ClockPasses
    \/ SetKillEvent
    \/ RunForeverExits

\* the executes and the reconciliation passes of one instant of clock_fn
NextTracking ==
    \/ NextEngine
    \/ ReconcileOnce
    \/ PollReturnsOrder
    \/ PollReturnsNothing

-----------------------------------------------------------------------------
(* hars_main_loop, src/scripts/run_bot.py                                   *)

api_failure_kill_threshold == 6
api_failure_decay_sec == 60

\* BotConfig.symbols
LoopSymbols == <<"BTC/USD", "ETH/USD">>

RuntimeStateInit == [kill_switch |-> FALSE, api_failure_streak |-> 0]

\* the decay, clearing the kill-switch once the streak is below the threshold
decay_failure_streak_clears(state) ==
    LET streak == Max(0, state.api_failure_streak - 1)
    IN  [state EXCEPT !.api_failure_streak = streak,
                      !.kill_switch = state.kill_switch /\ streak >= api_failure_kill_threshold]

\* hars_main_loop, line 435: one step of the failure-streak decay
decay_failure_streak(state) ==
    [state EXCEPT !.api_failure_streak = Max(0, state.api_failure_streak - 1)]

\* the APIError handler tripping only above the threshold
count_api_failure_late(state) ==
    LET streak == state.api_failure_streak + 1
    IN  [state EXCEPT !.api_failure_streak = streak,
                      !.kill_switch = state.kill_switch \/ streak > api_failure_kill_threshold]

\* hars_main_loop, lines 541-546: an APIError in a symbol's processing
count_api_failure(state) ==
    LET streak == state.api_failure_streak + 1
    IN  [state EXCEPT !.api_failure_streak = streak,
                      !.kill_switch = state.kill_switch \/ streak >= api_failure_kill_threshold]

\* the RiskState handed to router.route, without the kill-switch
router_risk_no_kill(state) ==
    [kill_switch |-> FALSE,
     risk_level |-> "GREEN",
     vol_spike |-> FALSE,
     api_failure_streak |-> state.api_failure_streak]

\* hars_main_loop, lines 458-463: the RiskState handed to router.route
router_risk(state) ==
    [kill_switch |-> state.kill_switch,
     risk_level |-> IF state.kill_switch THEN "CIRCUIT_BREAK" ELSE "GREEN",
     vol_spike |-> FALSE,
     api_failure_streak |-> state.api_failure_streak]

\* how the processing of one symbol may end: compute_regime raised (APIError
\* or something else), route gave no proposal, the risk gate paused it,
\* execute_trade_lighter returned a record or None, raised APIError, or
\* timed out under wait_for (asyncio.TimeoutError), or raised something else
ExecuteOutcomes == {"executed", "not_executed", "api_error", "timeout", "error"}

SymbolOutcomes(state) ==
    {"regime_api_error", "regime_error", "no_proposal"}
        \cup (IF hard_block(router_risk(state))
              THEN {}
              ELSE {"risk_blocked"} \cup ExecuteOutcomes)

\* hars_main_loop, lines 428-444: the top of a tick.  Line 433 assigns with
\* := to an attribute, which Python rejects; it is read as the test of
\* cfg.api_failure_decay_sec (60, true) that guards the decay.
LoopTick ==
    /\ unit = "loop"
    /\ loop.pc = "top"
    /\ LET due == /\ (now - last_failure_decay_ts) >= api_failure_decay_sec
                  /\ rt.api_failure_streak > 0
           rt1 == IF due THEN decay_failure_streak(rt) ELSE rt
       IN  /\ rt' = rt1
           /\ last_failure_decay_ts' = IF due THEN now ELSE last_failure_decay_ts
           /\ loop' = IF rt1.kill_switch THEN [pc |-> "top"] ELSE [pc |-> "symbols", idx |-> 1]
           /\ ev' = [op |-> "tick", decayed |-> due, skipped |-> rt1.kill_switch]
    /\ UNCHANGED <<kill_event, api, stuck_after, lk, unit, rb, volatility, now, rin, engineVars>>

\* hars_main_loop, lines 446-552: one symbol of the tick
LoopSymbol ==
    /\ unit = "loop"
    /\ loop.pc = "symbols"
    /\ \E outcome \in SymbolOutcomes(rt) :
         /\ rt' = IF outcome \in {"regime_api_error", "api_error"}
                  THEN count_api_failure(rt) ELSE rt
         /\ ev' = [op |-> "symbol", symbol |-> LoopSymbols[loop.idx], outcome |-> outcome,
                   execute_called |-> outcome \in ExecuteOutcomes]
    /\ loop' = IF loop.idx = Len(LoopSymbols) THEN [pc |-> "top"]
               ELSE [loop EXCEPT !.idx = loop.idx + 1]
    /\ UNCHANGED <<kill_event, api, stuck_after, lk, unit, rb, volatility, now, rin, engineVars, last_failure_decay_ts>>

NextLoop ==
    \/ LoopTick
    \/ LoopSymbol

-----------------------------------------------------------------------------

(* OrderReconciler._lock, src/engine/order_reconciliation.py               *)
(* The methods of the reconciler as the steps they take on the lock and on  *)
(* the map _orders, run by the tasks of the event loop: the execute calls   *)
(* and run_forever.  A task is suspended only at an await; the steps        *)
(* between two awaits are taken here one at a time, which allows every      *)
(* interleaving the event loop allows and more.                              *)

\* the items a snapshot taken by all() may hold
MaxSnapshot == 2

\* the task of run_forever, next to the tasks of the execute calls
ReconcilerTask == 0

LockTasks == Tasks \cup {ReconcilerTask}

\* track_submitted, lines 53-61: async with self._lock around the assignment
track_submitted_steps == <<"acquire", "write", "release">>

\* get reading the map without the lock
get_steps_unlocked == <<"read">>

\* get, lines 63-65
get_steps == <<"acquire", "read", "release">>

\* all, lines 67-69
all_steps == <<"acquire", "read", "release">>

\* the loop body of reconcile_once with the exchange queried under the lock
reconcile_item_steps_locked == <<"acquire", "await_exchange", "update", "release">>

\* reconcile_once, lines 75-99: the exchange is queried, then the record is
\* read and written under the lock
reconcile_item_steps == <<"await_exchange", "acquire", "update", "release">>

TrackerMethods == {"track_submitted", "get", "all"}

MethodSteps(method) ==
    CASE method = "track_submitted" -> track_submitted_steps
      [] method = "get" -> get_steps
      [] method = "all" -> all_steps

IdleCaller == [op |-> "idle", todo |-> <<>>, holds |-> FALSE, items |-> 0]

\* __init__, line 51: asyncio.Lock(), unlocked; no call in progress
LockInit == [locked |-> FALSE, pc |-> [k \in LockTasks |-> IdleCaller]]

AtStep(k) == IF lk.pc[k].todo = <<>> THEN "none" ELSE Head(lk.pc[k].todo)

Advance(k) == [lk.pc[k] EXCEPT !.todo = Tail(lk.pc[k].todo)]

\* execute, line 154, or any other caller of the reconciler's methods
CallMethod(k) ==
    /\ unit = "lock"
    /\ k \in Tasks
    /\ lk.pc[k].op = "idle"
    /\ \E method \in TrackerMethods :
         /\ lk' = [lk EXCEPT !.pc[k] = [IdleCaller EXCEPT !.op = method,
                                                          !.todo = MethodSteps(method)]]
         /\ ev' = [op |-> "call", by |-> k, method |-> method]
    /\ UNCHANGED <<kill_event, api, stuck_after, unit, rb, volatility, now, rin, engineVars, loopVars>>

\* a caller's method has run to its end
MethodReturns(k) ==
    /\ unit = "lock"
    /\ k \in Tasks
    /\ lk.pc[k].op # "idle"
    /\ lk.pc[k].todo = <<>>
    /\ lk' = [lk EXCEPT !.pc[k] = IdleCaller]
    /\ ev' = [op |-> "return", by |-> k, method |-> lk.pc[k].op]
    /\ UNCHANGED <<kill_event, api, stuck_after, unit, rb, volatility, now, rin, engineVars, loopVars>>

\* run_forever, line 107, and reconcile_once, line 72: await self.all()
CallReconcileOnce ==
    /\ unit = "lock"
    /\ lk.pc[ReconcilerTask].op = "idle"
    /\ lk' = [lk EXCEPT !.pc[ReconcilerTask] = [IdleCaller EXCEPT !.op = "all",
                                                                  !.todo = all_steps]]
    /\ ev' = [op |-> "call", by |-> ReconcilerTask, method |-> "reconcile_once"]
    /\ UNCHANGED <<kill_event, api, stuck_after, unit, rb, volatility, now, rin, engineVars, loopVars>>

\* reconcile_once, line 73: the next order of the snapshot, or the return
ReconcileLoop ==
    /\ unit = "lock"
    /\ lk.pc[ReconcilerTask].op # "idle"
    /\ lk.pc[ReconcilerTask].todo = <<>>
    /\ LET pc == lk.pc[ReconcilerTask]
       IN  IF pc.items > 0
           THEN /\ lk' = [lk EXCEPT !.pc[ReconcilerTask] =
                             [pc EXCEPT !.op = "reconcile_once",
                                        !.todo = reconcile_item_steps,
                                        !.items = pc.items - 1]]
                /\ ev' = [op |-> "next_order", by |-> ReconcilerTask, method |-> "reconcile_once"]
           ELSE /\ lk' = [lk EXCEPT !.pc[ReconcilerTask] = IdleCaller]
                /\ ev' = [op |-> "return", by |-> ReconcilerTask, method |-> "reconcile_once"]
    /\ UNCHANGED <<kill_event, api, stuck_after, unit, rb, volatility, now, rin, engineVars, loopVars>>

\* async with self._lock, entry: the task goes on once the lock is free
LockAcquire(k) ==
    /\ unit = "lock"
    /\ AtStep(k) = "acquire"
    /\ ~lk.locked
    /\ lk' = [lk EXCEPT !.locked = TRUE, !.pc[k] = [Advance(k) EXCEPT !.holds = TRUE]]
    /\ ev' = [op |-> "acquire", by |-> k, method |-> lk.pc[k].op]
    /\ UNCHANGED <<kill_event, api, stuck_after, unit, rb, volatility, now, rin, engineVars, loopVars>>

\* async with self._lock, exit
LockRelease(k) ==
    /\ unit = "lock"
    /\ AtStep(k) = "release"
    /\ lk' = [lk EXCEPT !.locked = FALSE, !.pc[k] = [Advance(k) EXCEPT !.holds = FALSE]]
    /\ ev' = [op |-> "release", by |-> k, method |-> lk.pc[k].op]
    /\ UNCHANGED <<kill_event, api, stuck_after, unit, rb, volatility, now, rin, engineVars, loopVars>>

\* a read or a write of self._orders: lines 55, 65, 69 and 86-99; the
\* snapshot all() returns to reconcile_once holds any number of orders
MapAccess(k) ==
    /\ unit = "lock"
    /\ AtStep(k) \in {"read", "write", "update"}
    /\ \E n \in 0..MaxSnapshot :
         /\ (k = ReconcilerTask /\ AtStep(k) = "read") \/ n = 0
         /\ lk' = [lk EXCEPT !.pc[k] = [Advance(k) EXCEPT
                       !.items = IF k = ReconcilerTask /\ AtStep(k) = "read" THEN n ELSE @]]
    /\ ev' = [op |-> "map_access", by |-> k, method |-> lk.pc[k].op, kind |-> AtStep(k),
              holds |-> lk.pc[k].holds, locked |-> lk.locked]
    /\ UNCHANGED <<kill_event, api, stuck_after, unit, rb, volatility, now, rin, engineVars, loopVars>>

\* reconcile_once, lines 75-77 and 101-102: get_order_by_client_id answers
\* with an order, with nothing (continue), or raises (caught at line 101);
\* leaving the async with block releases the lock
AwaitExchange(k) ==
    /\ unit = "lock"
    /\ AtStep(k) = "await_exchange"
    /\ \E answer \in {"order", "none", "error"} :
         /\ lk' = IF answer = "order"
                  THEN [lk EXCEPT !.pc[k] = Advance(k)]
                  ELSE [lk EXCEPT !.locked = IF lk.pc[k].holds THEN FALSE ELSE lk.locked,
                                  !.pc[k] = [lk.pc[k] EXCEPT !.todo = <<>>, !.holds = FALSE]]
         /\ ev' = [op |-> "exchange_answer", by |-> k, method |-> lk.pc[k].op,
                   answer |-> answer]
    /\ UNCHANGED <<kill_event, api, stuck_after, unit, rb, volatility, now, rin, engineVars, loopVars>>

NextLock ==
    \/ \E k \in Tasks : CallMethod(k)
    \/ \E k \in Tasks : MethodReturns(k)
    \/ CallReconcileOnce
    \/ ReconcileLoop
    \/ \E k \in LockTasks : LockAcquire(k)
    \/ \E k \in LockTasks : LockRelease(k)
    \/ \E k \in LockTasks : MapAccess(k)
    \/ \E k \in LockTasks : AwaitExchange(k)

-----------------------------------------------------------------------------

-----------------------------------------------------------------------------
(* LighterApiClient.init, src/engine/api_client.py                          *)

\* the tasks that call the client's methods concurrently
ApiTasks == {1, 2, 3}

\* the Lighter objects one run may construct
MaxBuilt == 3

\* the methods that begin with  await self.init(); c = self._require()
ApiMethods == {"market_order", "cancel_order", "get_open_orders",
               "get_inactive_orders"}

\* LighterApiClient.__init__ : _client None (0), _initialized False, the
\* lock free; built and succeeded count the Lighter objects constructed and
\* the runs of init that reached  self._initialized = True
ApiInit ==
    [client |-> 0, initialized |-> FALSE, locked |-> FALSE,
     built |-> 0, succeeded |-> 0,
     pc |-> [k \in ApiTasks |-> "idle"],
     c |-> [k \in ApiTasks |-> 0]]

\* init without the test of _initialized under the lock
already_initialized_never(a) == FALSE

\* if self._initialized: return
already_initialized(a) == a.initialized

\* _require, called right after init returned
require(a) ==
    IF ~a.initialized \/ a.client = 0 THEN "APIError" ELSE a.client

\* how the body of init can go up to its first suspension: the SDK import
\* fails, the constructor raises, or the client is built and init_client
\* is awaited
InitOutcomes == {"import_error", "constructor_raised", "awaiting"}

\* the body of init from the moment task k holds the lock to its first
\* suspension or its return
init_locked(a, k, outcome) ==
    IF already_initialized(a)
    THEN [a EXCEPT !.locked = FALSE, !.pc[k] = "using", !.c[k] = require(a)]
    ELSE IF outcome = "awaiting"
    THEN [a EXCEPT !.locked = TRUE, !.client = a.built + 1,
                   !.built = a.built + 1, !.pc[k] = "init_client"]
    ELSE [a EXCEPT !.locked = FALSE, !.pc[k] = "idle"]

init_result(a, outcome) ==
    IF already_initialized(a) THEN "reused"
    ELSE IF outcome = "awaiting" THEN "constructing" ELSE outcome

CanBuild(a, outcome) == outcome = "awaiting" => a.built < MaxBuilt

\* a task calls a method: await self.init(); it enters the body of init
\* at once if the lock is free and waits for the lock otherwise
ApiCall(k, m, outcome) ==
    /\ unit = "api"
    /\ api.pc[k] = "idle"
    /\ CanBuild(api, outcome)
    /\ IF api.locked
       THEN /\ api' = [api EXCEPT !.pc[k] = "wait_lock"]
            /\ ev' = [op |-> "api_call", by |-> k, method |-> m, result |-> "waiting"]
       ELSE /\ api' = init_locked(api, k, outcome)
            /\ ev' = [op |-> "api_call", by |-> k, method |-> m,
                      result |-> init_result(api, outcome)]
    /\ UNCHANGED <<kill_event, stuck_after, lk, unit, rb, volatility, now, rin, engineVars, loopVars>>

\* the lock is released and a waiting task enters the body of init
ApiLockWake(k, outcome) ==
    /\ unit = "api"
    /\ api.pc[k] = "wait_lock"
    /\ ~api.locked
    /\ CanBuild(api, outcome)
    /\ api' = init_locked(api, k, outcome)
    /\ ev' = [op |-> "lock_wake", by |-> k, result |-> init_result(api, outcome)]
    /\ UNCHANGED <<kill_event, stuck_after, lk, unit, rb, volatility, now, rin, engineVars, loopVars>>

\* await init_client() returns: self._initialized = True, the lock is
\* released, _require hands the client to the method
InitClientReturns(k) ==
    /\ unit = "api"
    /\ api.pc[k] = "init_client"
    /\ LET a == [api EXCEPT !.initialized = TRUE, !.succeeded = @ + 1,
                            !.locked = FALSE]
       IN  api' = [a EXCEPT !.pc[k] = "using", !.c[k] = require(a)]
    /\ ev' = [op |-> "init_done", by |-> k]
    /\ UNCHANGED <<kill_event, stuck_after, lk, unit, rb, volatility, now, rin, engineVars, loopVars>>

\* await init_client() raises: APIError leaves init and the method, the
\* lock is released, _initialized stays False
InitClientRaises(k) ==
    /\ unit = "api"
    /\ api.pc[k] = "init_client"
    /\ api' = [api EXCEPT !.locked = FALSE, !.pc[k] = "idle"]
    /\ ev' = [op |-> "init_failed", by |-> k]
    /\ UNCHANGED <<kill_event, stuck_after, lk, unit, rb, volatility, now, rin, engineVars, loopVars>>

\* the method's SDK call on the client it was handed ends
ApiMethodEnds(k) ==
    /\ unit = "api"
    /\ api.pc[k] = "using"
    /\ api' = [api EXCEPT !.pc[k] = "idle", !.c[k] = 0]
    /\ ev' = [op |-> "api_return", by |-> k]
    /\ UNCHANGED <<kill_event, stuck_after, lk, unit, rb, volatility, now, rin, engineVars, loopVars>>

NextApi ==
    \/ \E k \in ApiTasks, m \in ApiMethods, o \in InitOutcomes : ApiCall(k, m, o)
    \/ \E k \in ApiTasks, o \in InitOutcomes : ApiLockWake(k, o)
    \/ \E k \in ApiTasks : InitClientReturns(k)
    \/ \E k \in ApiTasks : InitClientRaises(k)
    \/ \E k \in ApiTasks : ApiMethodEnds(k)

-----------------------------------------------------------------------------


\* The components as constructed
Constructed ==
    /\ rb = RiskBrainInit
    /\ volatility = 0
    /\ now = 0
    /\ risk_state = RiskStateInit
    /\ ex_orders = <<>>
    /\ tasks = [t \in Tasks |-> IdleTask]
    /\ orders = [p \in ProposalIds |-> None]
    /\ order_keys = <<>>
    /\ rec = IdleReconciler
    /\ clock = 0
    /\ rt = RuntimeStateInit
    /\ last_failure_decay_ts = 0
    /\ loop = [pc |-> "top"]
    /\ lk = LockInit
    /\ api = ApiInit
    /\ kill_event = FALSE
    /\ stuck_after \in (IF unit = "reconciler" THEN StuckAfterSecs ELSE {stuck_after_sec})
    /\ ev = [op |-> "init"]

Init ==
    /\ unit \in Units
    /\ Constructed
    /\ rin = None

Next == NextRisk \/ NextEngine \/ NextReconciler \/ NextLoop \/ NextLock

Spec == Init /\ [][Next]_vars

\* the main loop alone
InitLoop == unit = "loop" /\ Constructed /\ rin = None
SpecLoop == InitLoop /\ [][NextLoop \/ TimePasses]_vars

\* ExecutionEngine under two concurrent callers
InitEngine == unit = "engine" /\ Constructed /\ rin = None
SpecEngine == InitEngine /\ [][NextEngine]_vars

\* the trading loop's executes next to the reconciliation loop
InitReconciler == unit = "reconciler" /\ Constructed /\ rin = None
SpecReconciler == InitReconciler /\ [][NextEngine \/ NextReconciler]_vars

\* the same with the scheduling of the event loop: an awaited exchange query
\* ends, and asyncio.sleep(poll_interval) returns.  A query in progress can
\* end with an order or with nothing, the two are enabled together and
\* either takes the pass one order further, so fairness on one of them says
\* that no query is awaited for ever
RunForeverFairness ==
    /\ WF_vars(PollReturnsNothing)
    /\ WF_vars(ReconcileOnce)
    /\ WF_vars(RunForeverExits)
SpecRunForever == SpecReconciler /\ RunForeverFairness

\* two concurrent callers of execute next to the reconciliation loop
InitTracking == unit = "tracking" /\ Constructed /\ rin = None
SpecTracking == InitTracking /\ [][NextTracking]_vars

\* the reconciler's lock and the tasks that use it
InitLock == unit = "lock" /\ Constructed /\ rin = None
SpecLock == InitLock /\ [][NextLock]_vars

\* RiskBrain alone
InitRisk == unit = "risk" /\ Constructed /\ rin = None
SpecRisk == InitRisk /\ [][NextRisk]_vars

\* one call of OrderReconciler._map_status on the inputs of this run
MapStatus ==
    /\ unit = "map_status"
    /\ ev.op = "init"
    /\ ev' = [op |-> "map_status", result |-> map_status(rin.status, rin.filled)]
    /\ UNCHANGED <<kill_event, api, stuck_after, lk, unit, rb, volatility, now, rin, engineVars, loopVars>>

NextMapStatus == MapStatus

\* _map_status alone: one call per run, on any status and filled size
InitMapStatus == unit = "map_status" /\ Constructed /\ rin \in MapStatusInputs
SpecMapStatus == InitMapStatus /\ [][NextMapStatus]_vars

\* LighterApiClient under concurrent callers
InitApi == unit = "api" /\ Constructed /\ rin = None
SpecApi == InitApi /\ [][NextApi]_vars

\* StrategyRouter alone: one route call per run, on any inputs
InitRouter == unit = "router" /\ Constructed /\ rin \in RouterInputs
SpecRouter == InitRouter /\ [][NextRouter]_vars

-----------------------------------------------------------------------------
(* ExecutionEngine: idempotency, allocation bound, kill-switch              *)

EngineProposalOf(id) == CHOOSE p \in EngineProposals : p.proposal_id = id

\* the orders the exchange holds that were sent by an execute of proposal id
ExchangeOrdersFor(id) == {i \in 1..Len(ex_orders) : ex_orders[i].for_proposal = id}

\* C1: every market_order call of execute carries client_order_id equal to
\* proposal.proposal_id; with the exchange idempotent on client_order_id the
\* executes of one proposal_id, sequential or interleaved, leave at most one
\* exchange order, and every ExecutionResult for the proposal names that order.
C1_Idempotency ==
    /\ (ev.op = "market_order" => ev.client_order_id = ev.proposal_id)
    /\ \A id \in ProposalIds : Cardinality(ExchangeOrdersFor(id)) <= 1
    /\ (ev.op = "execute_return" /\ ev.why = "ok") =>
          /\ ev.result.client_order_id = ev.proposal_id
          /\ ExchangeOrdersFor(ev.proposal_id) = {ev.result.order_id}
    /\ \A id \in ProposalIds :
          orders[id] # None => ExchangeOrdersFor(id) = {orders[id].order_id}

\* the second caller's execute of a proposal has returned its result while
\* the first caller's execute of the same proposal is still awaiting
\* market_order, and the exchange holds one order for the proposal
C1_Witness ==
    /\ ev.op = "execute_return"
    /\ ev.why = "ok"
    /\ ev.task = 2
    /\ tasks[1].pc = "market_order"
    /\ tasks[1].proposal.proposal_id = ev.proposal_id
    /\ Cardinality(ExchangeOrdersFor(ev.proposal_id)) = 1
    /\ Len(ex_orders) = 2

\* C2: every ExecutionResult has executed_size <= allocated_size * 1.01 with
\* allocated_size = proposal.size * allocation_multiplier; a reported fill
\* above that bound, and no other, takes the violation path, on which execute
\* returns None with the kill-switch on.  (Sizes 1.0 * 0.5: a fill of 0.504
\* is within the bound, a fill of 0.52 is not.)
C2_AllocationBound ==
    /\ (ev.op = "execute_return" /\ ev.why = "ok") =>
          /\ ev.result.allocated_size =
                EngineProposalOf(ev.proposal_id).size * ev.result.allocation_multiplier
          /\ ev.result.executed_size * 100 * 100 <= ev.result.allocated_size * 101
    /\ ev.op = "allocation_violation" =>
          /\ ev.executed_size * 100 * 100 > ev.allocated_size * 101
          /\ risk_state.kill_switch
    /\ (ev.op = "execute_return" /\ ev.why = "allocation_violation") =>
          (ev.result = None /\ risk_state.kill_switch)

\* size 1.0 at multiplier 0.5: one caller's fill of 0.52 was a violation
\* (it is at the cancel), the other caller's fill of 0.504 was accepted
C2_Witness ==
    /\ ev.op = "execute_return"
    /\ ev.why = "ok"
    /\ ev.result.allocated_size = 1000 * 50
    /\ ev.result.executed_size = 504
    /\ \E t \in Tasks :
          /\ tasks[t].pc = "cancel_order"
          /\ tasks[t].allocated_size = 1000 * 50
          /\ tasks[t].executed_size = 520
    /\ risk_state.kill_switch

\* C3: the kill-switch is a latch: no step of the program (evaluate_trade,
\* update_drawdown, update_cpm_state, execute, reconcile_once, the main-loop
\* tick with its failure-streak decay) turns RiskBrain.kill_switch_active,
\* the risk state flag written by execute, or RuntimeState.kill_switch from
\* true back to false.
C3_KillSwitchLatch ==
    [][/\ rb.kill_switch_active => rb'.kill_switch_active
       /\ risk_state.kill_switch => risk_state'.kill_switch
       /\ rt.kill_switch => rt'.kill_switch]_vars

\* a tick of the main loop has decayed the failure streak below the
\* threshold with the kill-switch on
C3_Witness ==
    /\ ev.op = "tick"
    /\ ev.decayed
    /\ rt.kill_switch
    /\ rt.api_failure_streak < api_failure_kill_threshold

C5_ViolationSeenByRiskBrain ==
    ev.op = "allocation_violation" =>
        /\ rb.kill_switch_active
        /\ \A proposal \in RiskProposals :
              ~evaluate_trade(rb, volatility, proposal, 0, Book(0, 0), now).allow

-----------------------------------------------------------------------------
(* StrategyRouter: hard block and soft block                                *)

\* the valid proposals the strategies called by the last route produced
ValidProduced ==
    {p \in {rin.proposals[ev.called[i]] : i \in 1..Len(ev.called)} :
        p # None /\ router_validate(p)}

\* those of them the module constraint of the regime does not exclude
EligibleProduced == {p \in ValidProduced : ~module_blocked(p, rin.regime)}

RouteBlocked ==
    \/ rin.risk_state.kill_switch
    \/ rin.risk_state.risk_level \in {"CIRCUIT", "CIRCUIT_BREAK"}
    \/ rin.regime \in rin.cfg.no_trade_regimes

\* C6: route returns None and calls no strategy's propose whenever
\* risk_state.kill_switch is true, or risk_level is CIRCUIT or CIRCUIT_BREAK,
\* or the regime is in the configured no-trade set.
C6_RouteHardBlock ==
    (ev.op = "route" /\ RouteBlocked) => (ev.result = None /\ ev.called = <<>>)

\* a blocked call (risk level CIRCUIT_BREAK alone) in which the first
\* strategy of the list had a valid proposal to return
C6_Witness ==
    /\ ev.op = "route"
    /\ ~rin.risk_state.kill_switch
    /\ rin.risk_state.risk_level = "CIRCUIT_BREAK"
    /\ rin.regime = "BALANCED"
    /\ rin.cfg.no_trade_regimes = {}
    /\ rin.proposals["mean_reversion"] # None
    /\ router_validate(rin.proposals["mean_reversion"])
    /\ ev.result = None

\* C7 as stated: with the soft block on and no hard block, if the only valid
\* proposal produced is in BASKET_3 route returns it, and if a BASKET_3 and a
\* non-BASKET_3 valid proposal are both produced route returns a
\* non-BASKET_3 one.
C7_SoftBlockAsStated ==
    (ev.op = "route" /\ ~RouteBlocked /\ rin.cfg.basket3_soft_block) =>
        /\ \A p \in ValidProduced :
             (ValidProduced = {p} /\ p.basket = "BASKET_3") => ev.result = p
        /\ (\E p, q \in ValidProduced : p.basket = "BASKET_3" /\ q.basket # "BASKET_3")
             => (ev.result \in ValidProduced /\ ev.result.basket # "BASKET_3")

\* C7 amended: the same, counting only the valid proposals that are not
\* LIQUIDITY_RAID-module proposals in a regime that disables liquidity raid
\* (route skips those whatever their basket).
C7_SoftBlockFallback ==
    (ev.op = "route" /\ ~RouteBlocked /\ rin.cfg.basket3_soft_block) =>
        /\ \A p \in EligibleProduced :
             (EligibleProduced = {p} /\ p.basket = "BASKET_3") => ev.result = p
        /\ (\E p, q \in EligibleProduced : p.basket = "BASKET_3" /\ q.basket # "BASKET_3")
             => (ev.result \in EligibleProduced /\ ev.result.basket # "BASKET_3")

\* a call in which a BASKET_3 proposal came first in the list, was held, and
\* a later strategy's non-BASKET_3 proposal was returned
C7_Witness ==
    /\ ev.op = "route"
    /\ ~RouteBlocked
    /\ rin.cfg.basket3_soft_block
    /\ Len(ev.called) >= 2
    /\ rin.proposals[ev.called[1]] \in EligibleProduced
    /\ rin.proposals[ev.called[1]].basket = "BASKET_3"
    /\ ev.result \in EligibleProduced
    /\ ev.result.basket # "BASKET_3"

-----------------------------------------------------------------------------
(* RiskBrain: the combined multiplier                                       *)

\* C8: the combined multiplier evaluate_trade applies to the proposed size
\* lies in [0,1] (0..MultScale here), and the approved size is at most the
\* proposed size.
C8_MultiplierBounds ==
    (ev.op = "evaluate_trade"
        /\ ev.reason \notin {"Kill switch active", "Daily loss limit breached"}) =>
        /\ ev.combined_mult >= 0
        /\ ev.combined_mult <= MultScale
        /\ ev.size <= ev.proposal.size * MultScale

-----------------------------------------------------------------------------
(* OrderReconciler: status mapping and stuck detection                      *)

\* C9: a tracked order polled with status "PARTIALLY_FILLED" and
\* filled_size > 0 ends the poll in state PARTIAL.
C9_PartiallyFilledIsPartial ==
    (ev.op = "poll" /\ ev.answer = "order"
        /\ ev.status = "PARTIALLY_FILLED" /\ ev.filled_size > 0) =>
        orders[ev.proposal_id].state = "PARTIAL"

\* C10: a tracked order in state SUBMITTED or PARTIAL whose last update (by
\* an earlier poll) is more than stuck_after_sec before the poll time is set
\* to STUCK by the poll.
C10_StaleOrderBecomesStuck ==
    [][(/\ ev'.op = "poll"
        /\ ev'.answer = "order"
        /\ orders[ev'.proposal_id].state \in {"SUBMITTED", "PARTIAL"}
        /\ orders[ev'.proposal_id].last_status # "UNKNOWN"
        /\ ev'.now_ts - orders[ev'.proposal_id].last_update_ts > stuck_after)
          => orders'[ev'.proposal_id].state = "STUCK"]_vars

-----------------------------------------------------------------------------
(* RiskBrain: the hard drawdown limit                                       *)

\* C11: an evaluate_trade that finds the drawdown at or below the hard limit
\* rejects the trade and leaves the kill-switch on, and every evaluate_trade
\* made with the kill-switch on is rejected with the reason "Kill switch
\* active", whatever the drawdown has become.
C11_HardLimitLatch ==
    /\ (ev.op = "evaluate_trade" /\ rb.drawdown <= drawdown_hard_limit) =>
          (~ev.allow /\ ev.size = 0 /\ rb.kill_switch_active)
    /\ (ev.op = "evaluate_trade" /\ ev.kill_before) =>
          (~ev.allow /\ ev.size = 0 /\ ev.reason = "Kill switch active"
              /\ rb.kill_switch_active)

\* the assessment that trips the switch at the hard limit: the kill-switch
\* was off, the loss of the day is within its limit, the drawdown from the
\* peak is not
C11_Witness ==
    /\ ev.op = "evaluate_trade"
    /\ ~ev.kill_before
    /\ ev.total_pnl > daily_loss_limit
    /\ rb.drawdown <= drawdown_hard_limit
    /\ rb.kill_switch_active
    /\ ~ev.allow

-----------------------------------------------------------------------------
(* The API failure streaks: the engine's risk state and the main loop       *)

LoopApiFailure(e) == e.op = "symbol" /\ e.outcome \in {"regime_api_error", "api_error"}

-----------------------------------------------------------------------------
(* ExecutionEngine: how execute ends                                        *)

\* C13: execute never raises to its caller: every call ends by returning an
\* ExecutionResult or None, whatever its collaborators do.
C13_ExecuteNeverRaises ==
    ev.op \in {"execute_return", "execute_raised"} =>
        (ev.op = "execute_return"
            /\ (ev.result = None \/ ev.result.proposal_id = ev.proposal_id))

-----------------------------------------------------------------------------
(* The frozen contract                                                      *)

\* C14: a proposal that fails the frozen contract is never returned by
\* route and never leads execute to call market_order.
C14_InvalidNeverRoutedOrExecuted ==
    /\ (ev.op = "route" /\ ev.result # None) => contract_validate(ev.result)
    /\ ev.op = "market_order" => contract_validate(EngineProposalOf(ev.proposal_id))

-----------------------------------------------------------------------------
(* OrderReconciler: the state machine of a tracked order                    *)

TerminalStates == {"FILLED", "CANCELLED", "REJECTED"}

\* PENDING -> SUBMITTED -> {PARTIAL <-> SUBMITTED} -> terminal, and
\* SUBMITTED | PARTIAL -> STUCK; STUCK is left for whatever a later poll
\* shows
StateMachine ==
    {<<"PENDING", "SUBMITTED">>, <<"SUBMITTED", "PARTIAL">>, <<"PARTIAL", "SUBMITTED">>,
     <<"SUBMITTED", "STUCK">>, <<"PARTIAL", "STUCK">>}
        \cup ({"SUBMITTED", "PARTIAL"} \X TerminalStates)
        \cup ({"STUCK"} \X ({"SUBMITTED", "PARTIAL"} \cup TerminalStates))

\* C15: every change a reconcile_once poll makes to the state of a tracked
\* order is a step of the state machine; in particular a poll leaves an
\* order that is FILLED, CANCELLED or REJECTED in its state.
C15_OrderStateMachine ==
    [][ev'.op = "poll" =>
          \A id \in ProposalIds :
             (orders[id] # None /\ orders'[id].state # orders[id].state) =>
                 <<orders[id].state, orders'[id].state>> \in StateMachine]_vars
-----------------------------------------------------------------------------
(* OrderReconciler: what a poll leaves alone                                *)

\* C16: reconcile_once is read-only to the exchange and to the risk state:
\* a reconciler step places and cancels no order and leaves the
\* kill-switch, the risk level and the failure streak as they were; a
\* cancel_order call is only ever started by execute, on an allocation
\* violation.
C16_ReconcilerReadOnly ==
    [][/\ ev'.op \in {"reconcile_once", "poll"} =>
             /\ risk_state' = risk_state
             /\ ex_orders' = ex_orders
             /\ tasks' = tasks
       /\ \A t \in Tasks :
             (tasks'[t].pc = "cancel_order" /\ tasks[t].pc # "cancel_order") =>
                /\ MarketOrderReturns(t)
                /\ allocation_violated(tasks'[t].executed_size, tasks'[t].allocated_size)]_vars

\* a poll has seen an order filled, with an order on the exchange and a
\* failure counted in the streak
C16_Witness ==
    /\ ev.op = "poll"
    /\ ev.answer = "order"
    /\ orders[ev.proposal_id].state = "FILLED"
    /\ ex_orders # <<>>
    /\ risk_state.api_failure_streak > 0
-----------------------------------------------------------------------------
(* OrderReconciler: the life of a tracked record                            *)

\* C17: a tracked record is never deleted, and its state, filled_size,
\* avg_price and last_update_ts change in reconciliation polls only: no
\* step of execute resets the record of a proposal that is tracked.
C17_TrackedOnlyPolled ==
    [][\A id \in ProposalIds :
          orders[id] # None =>
             /\ orders'[id] # None
             /\ ev'.op # "poll" =>
                   /\ orders'[id].state = orders[id].state
                   /\ orders'[id].filled_size = orders[id].filled_size
                   /\ orders'[id].avg_price = orders[id].avg_price
                   /\ orders'[id].last_update_ts = orders[id].last_update_ts]_vars
-----------------------------------------------------------------------------
(* hars_main_loop: a timeout of the execution                               *)

\* C18: a timeout of the execution under wait_for is counted like an
\* adapter failure: the failure streak goes up by one and, at the
\* threshold, the kill-switch trips; the tick goes on with the next
\* symbol.
C18_TimeoutCountsAsFailure ==
    [][(ev'.op = "symbol" /\ ev'.outcome = "timeout") =>
          /\ rt'.api_failure_streak = rt.api_failure_streak + 1
          /\ rt'.api_failure_streak >= api_failure_kill_threshold => rt'.kill_switch
          /\ loop' = IF loop.idx = Len(LoopSymbols) THEN [pc |-> "top"]
                     ELSE [loop EXCEPT !.idx = loop.idx + 1]]_vars
-----------------------------------------------------------------------------
(* OrderReconciler._lock                                                    *)

Holders == {k \in LockTasks : lk.pc[k].holds}

\* C19: every read and write of the tracked-order map is made by a task
\* that holds the lock; at most one task holds it, and the lock is locked
\* exactly while one does; no task waits for the lock while holding it,
\* and the task that holds it never waits for it, so it runs on to the
\* release: the tasks cannot deadlock on the lock.
C19_MapUnderLock ==
    /\ ev.op = "map_access" => (ev.holds /\ ev.locked)
    /\ Cardinality(Holders) <= 1
    /\ lk.locked <=> Holders # {}
    /\ \A k \in LockTasks : AtStep(k) = "acquire" => ~lk.pc[k].holds
    /\ \A k \in Holders : AtStep(k) \notin {"acquire", "none"}

\* reconcile_once updates a record under the lock while an execute call
\* waits for the lock in track_submitted
C19_Witness ==
    /\ ev.op = "map_access"
    /\ ev.by = ReconcilerTask
    /\ ev.kind = "update"
    /\ \E k \in Tasks : lk.pc[k].op = "track_submitted" /\ AtStep(k) = "acquire"

\* C20: while reconcile_once is suspended in get_order_by_client_id the
\* reconciler does not hold the lock, so an execute call that waits for
\* the lock in track_submitted waits for another caller at most, never for
\* the exchange's answer to the poll.
C20_PollDoesNotBlockExecute ==
    AtStep(ReconcilerTask) = "await_exchange" =>
        /\ ~lk.pc[ReconcilerTask].holds
        /\ \A k \in Tasks :
              (lk.pc[k].op = "track_submitted" /\ AtStep(k) = "acquire") =>
                  (~lk.locked \/ Holders \subseteq Tasks \ {k})

\* track_submitted has returned to execute while the poll is still
\* suspended in get_order_by_client_id
C20_Witness ==
    /\ AtStep(ReconcilerTask) = "await_exchange"
    /\ ev.op = "return"
    /\ ev.method = "track_submitted"
-----------------------------------------------------------------------------
(* hars_main_loop: the kill-switch stops the loop's actions                 *)

\* C21: once RuntimeState.kill_switch is true the main loop executes no
\* order: a tick that starts with it skips the symbols altogether, and
\* after it trips within a tick the symbols that remain get no execution.
C21_KillSwitchStopsLoop ==
    [][/\ (ev'.op = "tick" /\ rt'.kill_switch) => (ev'.skipped /\ loop'.pc = "top")
       /\ (ev'.op = "symbol" /\ rt.kill_switch) => ~ev'.execute_called]_vars

\* the kill-switch tripped on the first symbol of a tick, and the second
\* symbol was then processed without a proposal
C21_Witness ==
    /\ ev.op = "symbol"
    /\ ev.symbol = LoopSymbols[2]
    /\ ev.outcome = "no_proposal"
    /\ rt.kill_switch
-----------------------------------------------------------------------------
(* ExecutionEngine.execute: up to the submission                            *)

\* C22: execute calls market_order at most once per call, and only for a
\* proposal that validated, that the risk assessment allowed, and whose
\* allocated_size = size * multiplier is at least the minimum size; the
\* amount is +allocated_size for LONG and -allocated_size for SHORT.  A
\* call that ends at validation, risk or size calls no adapter and leaves
\* the risk state and the tracked orders as they were.
C22_SubmitAfterGates ==
    [][/\ ev'.op = "market_order" =>
             LET p == EngineProposalOf(ev'.proposal_id)
                 t == ev'.task
             IN  /\ tasks[t].pc = "idle"
                 /\ tasks'[t].pc = "market_order"
                 /\ engine_validate(p)
                 /\ \E decision \in assess_proposal(risk_state) :
                       /\ decision.allow
                       /\ decision.allocation_multiplier = ev'.allocation_multiplier
                 /\ ev'.allocated_size = p.size * ev'.allocation_multiplier
                 /\ ev'.allocated_size >= 1
                 /\ ev'.amount = IF p.direction = "LONG" THEN ev'.allocated_size
                                 ELSE 0 - ev'.allocated_size
       /\ \A t \in Tasks :
             (tasks[t].pc = "market_order" /\ tasks'[t] # tasks[t]) =>
                 tasks'[t].pc # "market_order"
       /\ (ev'.op = "execute_return" /\ ev'.why \in {"invalid", "risk", "tiny"}) =>
             /\ ev'.result = None
             /\ risk_state' = risk_state
             /\ ex_orders' = ex_orders
             /\ orders' = orders /\ order_keys' = order_keys
             /\ tasks' = tasks]_vars

\* a SHORT proposal was submitted with a negative amount
C22_Witness ==
    /\ ev.op = "market_order"
    /\ EngineProposalOf(ev.proposal_id).direction = "SHORT"
    /\ ev.amount < 0
-----------------------------------------------------------------------------
(* ExecutionEngine.execute: a failed submission                             *)

\* C23: when market_order fails, execute registers one API failure and no
\* success with the risk collaborator, makes no second market_order call,
\* returns None, tracks no order and does not call the store callback.
C23_FailedSubmission ==
    [][(ev'.op = "execute_return" /\ ev'.why = "api_failure") =>
          LET t == ev'.task
          IN  /\ tasks[t].pc = "market_order"
              /\ tasks'[t] = IdleTask
              /\ risk_state' = register_api_failure(risk_state)
              /\ ev'.result = None
              /\ orders' = orders /\ order_keys' = order_keys
              /\ ev'.store = "not_called"]_vars

\* the failed submission that brought the streak to the threshold
C23_Witness ==
    /\ ev.op = "execute_return"
    /\ ev.why = "api_failure"
    /\ risk_state.api_failure_streak = api_failure_threshold
-----------------------------------------------------------------------------
(* ExecutionEngine.execute: after an allocation violation                   *)

\* C24: on an allocation violation execute makes one cancel_order call,
\* for the order id the adapter returned, and whether that call succeeds
\* or raises it returns None with the kill-switch on, without registering
\* the order with the reconciler and without storing a record.
C24_ViolationEndsInNone ==
    [][/\ ev'.op = "allocation_violation" =>
             LET t == ev'.task
             IN  /\ tasks'[t].pc = "cancel_order"
                 /\ tasks'[t].order_id =
                        ExchangeOrderId(ex_orders', client_order_id(tasks[t].proposal))
                 /\ risk_state'.kill_switch
                 /\ orders' = orders /\ order_keys' = order_keys
       /\ \A t \in Tasks :
             tasks[t].pc = "cancel_order" =>
                \/ tasks'[t] = tasks[t]
                \/ /\ tasks'[t] = IdleTask
                   /\ ev'.op = "execute_return" /\ ev'.task = t
                   /\ ev'.why = "allocation_violation"
                   /\ ev'.cancel \in CancelOutcomes
                   /\ ev'.order_id = tasks[t].order_id
                   /\ ev'.result = None
                   /\ ev'.store = "not_called"
                   /\ risk_state'.kill_switch
                   /\ orders' = orders /\ order_keys' = order_keys]_vars

\* execute has returned after a cancel_order that raised
C24_Witness ==
    /\ ev.op = "execute_return"
    /\ ev.why = "allocation_violation"
    /\ ev.cancel = "raised"
-----------------------------------------------------------------------------
(* ExecutionEngine.execute: a successful execution                          *)

\* C25: on an execution within tolerance the order is registered with the
\* reconciler, in state SUBMITTED under its proposal_id, before the store
\* callback runs, and the record returned carries the proposal's
\* proposal_id, symbol, basket, module, htf_regime and auction_context,
\* client_order_id = proposal_id and allocated_size = size * multiplier;
\* the proposal is as it was handed in.
C25_RecordPassesProposalThrough ==
    [][/\ ev'.op = "track_submitted" =>
             LET t == ev'.task
                 id == ev'.proposal_id
             IN  /\ tasks[t].pc = "market_order"
                 /\ tasks'[t].pc = "store"
                 /\ orders'[id] # None
                 /\ orders'[id].state = "SUBMITTED"
                 /\ orders'[id].proposal_id = id
                 /\ orders'[id].order_id = ev'.order_id
       /\ (ev'.op = "execute_return" /\ ev'.why = "ok") =>
             LET t == ev'.task
                 p == EngineProposalOf(ev'.proposal_id)
                 res == ev'.result
             IN  /\ tasks[t].pc = "store"
                 /\ orders[p.proposal_id] # None
                 /\ tasks[t].proposal = p
                 /\ res # None
                 /\ res.proposal_id = p.proposal_id
                 /\ res.symbol = p.symbol
                 /\ res.frozen = [basket |-> p.basket, module |-> p.module,
                                  htf_regime |-> p.htf_regime,
                                  auction_context |-> p.auction_context]
                 /\ res.client_order_id = p.proposal_id
                 /\ res.allocation_multiplier \in AllocationMultipliers
                 /\ res.allocated_size = p.size * res.allocation_multiplier
                 /\ ~allocation_violated(res.executed_size, res.allocated_size)]_vars

\* a record with a fill and half the proposal's size allocated was stored
\* and returned
C25_Witness ==
    /\ ev.op = "execute_return"
    /\ ev.why = "ok"
    /\ ev.store = "stored"
    /\ ev.result.allocation_multiplier = 50
    /\ ev.result.executed_size > 0
-----------------------------------------------------------------------------
(* ExecutionEngine.execute: the store callback                              *)

\* C26: when the store callback raises, when called or when awaited,
\* execute still returns the ExecutionResult, the order stays tracked, and
\* the kill-switch and the API failure streak are as they were.
C26_StoreFailureNonFatal ==
    [][(ev'.op = "execute_return" /\ ev'.store \in {"raised", "raised_awaited"}) =>
          LET t == ev'.task
          IN  /\ tasks[t].pc = "store"
              /\ ev'.result # None
              /\ ev'.result = tasks[t].res
              /\ orders[ev'.proposal_id] # None
              /\ orders' = orders /\ order_keys' = order_keys
              /\ risk_state' = risk_state]_vars

\* execute has returned a record although the awaited store callback
\* raised, with a failure in the streak
C26_Witness ==
    /\ ev.op = "execute_return"
    /\ ev.store = "raised_awaited"
    /\ ev.result # None
    /\ risk_state.api_failure_streak > 0
-----------------------------------------------------------------------------
(* StrategyRouter.route: selection by priority                              *)

\* the strategies route scans in a call on the inputs of this run, in order
ScanList ==
    apply_rule_gates(priority_for_regime(rin.regime, rin.prev_regime), rin.regime,
                     rin.risk_state)

\* the places of ScanList whose strategy produces a valid proposal that the
\* module constraint does not exclude, outside and inside BASKET_3
EligiblePlaces ==
    {i \in 1..Len(ScanList) :
        LET p == rin.proposals[ScanList[i]]
        IN  p # None /\ router_validate(p) /\ ~module_blocked(p, rin.regime)}
PlacesOutsideBasket3 ==
    {i \in EligiblePlaces : rin.proposals[ScanList[i]].basket # "BASKET_3"}
PlacesInBasket3 ==
    {i \in EligiblePlaces : rin.proposals[ScanList[i]].basket = "BASKET_3"}

Least(S) == CHOOSE i \in S : \A j \in S : i <= j

\* C27: with the soft block on, route returns the proposal of the earliest
\* strategy in the list whose valid proposal is outside BASKET_3 and calls
\* no strategy after it; when every valid proposal is in BASKET_3, it
\* returns the proposal of the earliest such strategy.
C27_FirstInPriorityWins ==
    (ev.op = "route" /\ ~RouteBlocked /\ rin.cfg.basket3_soft_block) =>
        /\ PlacesOutsideBasket3 # {} =>
              /\ ev.result = rin.proposals[ScanList[Least(PlacesOutsideBasket3)]]
              /\ ev.called = SubSeq(ScanList, 1, Least(PlacesOutsideBasket3))
        /\ (PlacesOutsideBasket3 = {} /\ PlacesInBasket3 # {}) =>
              ev.result = rin.proposals[ScanList[Least(PlacesInBasket3)]]
-----------------------------------------------------------------------------
(* StrategyRouter.route: danger transitions                                 *)

Elements(seq) == {seq[i] : i \in 1..Len(seq)}

\* called holds strategies of list only, in the order of list
ConsultedFrom(called, list) ==
    called = SelectSeq(list, LAMBDA k : k \in Elements(called))

DangerTransition ==
    rin.prev_regime # "None" /\ <<rin.prev_regime, rin.regime>> \in danger_transitions

\* C28: on a configured danger transition route consults strategies of the
\* danger list only; with no previous regime or another transition it
\* consults strategies of the regime's configured list, and for a regime
\* without a configured list it consults none and returns None.
C28_DangerPriority ==
    (ev.op = "route" /\ ~RouteBlocked) =>
        /\ DangerTransition => ConsultedFrom(ev.called, danger_priority)
        /\ ~DangerTransition => ConsultedFrom(ev.called, regime_priority(rin.regime))
        /\ (~DangerTransition /\ rin.regime \notin HTFRegimes) =>
              (ev.called = <<>> /\ ev.result = None)

\* TREND_UP -> HIGH_VOLATILITY: mean_reversion was asked and had nothing,
\* and trend_continuation, which had a valid proposal, was not asked
C28_Witness ==
    /\ ev.op = "route"
    /\ rin.prev_regime = "TREND_UP"
    /\ rin.regime = "HIGH_VOLATILITY"
    /\ ev.called = <<"mean_reversion">>
    /\ ev.result = None
    /\ rin.proposals["trend_continuation"] # None
    /\ router_validate(rin.proposals["trend_continuation"])
-----------------------------------------------------------------------------
(* StrategyRouter.route: the aggressive family under stress                 *)

UnderStress ==
    \/ rin.risk_state.vol_spike
    \/ rin.risk_state.api_failure_streak > max_api_failure_streak_for_aggressive

\* the strategies the gates take out of the list in this call
GatedOut ==
    (IF rin.regime \in disable_liquidity_raid_in THEN {"liquidity_raid"} ELSE {})
        \cup (IF UnderStress THEN aggressive_strategies ELSE {})

\* C29: in a regime of the disabling set route does not call the
\* liquidity_raid strategy and returns no proposal of module
\* LIQUIDITY_RAID; on a volatility spike or with the API failure streak
\* above the configured maximum it calls no aggressive strategy; the other
\* strategies of the list are asked in the list's order, none left out.
C29_AggressiveGated ==
    (ev.op = "route" /\ ~RouteBlocked) =>
        LET list == priority_for_regime(rin.regime, rin.prev_regime)
        IN  /\ rin.regime \in disable_liquidity_raid_in =>
                  /\ "liquidity_raid" \notin Elements(ev.called)
                  /\ ev.result # None => ev.result.module # "LIQUIDITY_RAID"
            /\ UnderStress => Elements(ev.called) \cap aggressive_strategies = {}
            /\ ConsultedFrom(ev.called, list)
            /\ \A i, j \in 1..Len(list) :
                  (i < j /\ list[j] \in Elements(ev.called) /\ list[i] \notin GatedOut)
                      => list[i] \in Elements(ev.called)

\* with the streak above the maximum and no spike, the two other
\* strategies were asked in order and had nothing, and liquidity_raid,
\* which had a valid proposal, was not asked
C29_Witness ==
    /\ ev.op = "route"
    /\ rin.regime = "TREND_UP"
    /\ ~rin.risk_state.vol_spike
    /\ rin.risk_state.api_failure_streak > max_api_failure_streak_for_aggressive
    /\ ev.called = <<"trend_continuation", "mean_reversion">>
    /\ ev.result = None
    /\ rin.proposals["liquidity_raid"] # None
-----------------------------------------------------------------------------
(* RiskBrain.drawdown_multiplier                                            *)

\* the drawdowns update_drawdown can leave in the brain
DrawdownLevels == {pnl - peak : pnl \in PnlLevels, peak \in PnlLevels \cup {0}}

\* C30: drawdown_multiplier is 1.0 (100 percent) above the soft limit, at
\* most 1.0 between the soft and the hard limit, and 0 with the
\* kill-switch tripped at or beyond the hard limit; a deeper drawdown never
\* yields a larger multiplier.
C30_DrawdownMultiplierShape ==
    ev.op = "update_drawdown" =>
        LET dd == drawdown_multiplier(rb)
        IN  /\ rb.drawdown > drawdown_soft_limit => dd.mult = 100
            /\ (rb.drawdown <= drawdown_soft_limit /\ rb.drawdown > drawdown_hard_limit) =>
                  (dd.mult >= 0 /\ dd.mult <= 100)
            /\ rb.drawdown <= drawdown_hard_limit =>
                  (dd.mult = 0 /\ dd.rb.kill_switch_active)
            /\ \A deeper \in DrawdownLevels :
                  deeper <= rb.drawdown =>
                      drawdown_multiplier([rb EXCEPT !.drawdown = deeper]).mult <= dd.mult
-----------------------------------------------------------------------------
(* RiskBrain: capital preservation mode                                     *)

CpmUpdated(e) == e.op \in {"update_cpm_state", "evaluate_trade"}

\* C31: an update that finds the drawdown at or below the trigger level
\* enters capital preservation mode; the mode is left only by an update at
\* which the drawdown is back at the recovery level and cpm_min_duration
\* has passed since the entry, and not while either is missing; while it
\* is active every assessment that sizes applies the multiplier 0.3.
C31_CpmHysteresis ==
    [][/\ rb'.cpm_active # rb.cpm_active => CpmUpdated(ev')
       /\ (CpmUpdated(ev') /\ ~rb.cpm_active) =>
             (rb'.cpm_active <=> rb'.drawdown <= cpm_trigger_level)
       /\ (CpmUpdated(ev') /\ rb.cpm_active) =>
             /\ rb'.cpm_start_time = rb.cpm_start_time
             /\ ~rb'.cpm_active <=>
                   /\ rb'.drawdown >= cpm_recovery_level
                   /\ now - rb.cpm_start_time >= cpm_min_duration
       /\ (ev'.op = "evaluate_trade" /\ rb'.cpm_active
              /\ ev'.reason \notin {"Kill switch active", "Daily loss limit breached"}) =>
             ev'.combined_mult =
                 drawdown_multiplier(rb').mult * risk_multiplier(volatility)
                     * cpm_size_multiplier]_vars

\* an update has ended the mode, entered earlier
C31_Witness ==
    /\ ev.op = "update_cpm_state"
    /\ ev.was_active
    /\ ~rb.cpm_active
-----------------------------------------------------------------------------
(* RiskBrain.evaluate_trade: the exposure caps                              *)

TotalExposure(positions) == Abs(positions["BTC"]) + Abs(positions["ETH"])

\* the symbol's position after a trade of the approved size, in units of
\* 1e-6 like the size
PositionAfter(e) ==
    e.positions[e.proposal.symbol] * MultScale
        + (IF e.proposal.direction = "LONG" THEN e.size ELSE 0 - e.size)

\* C32: a trade evaluate_trade allows has an approved size s > 0 that keeps
\* the symbol's absolute position within max_position_per_symbol and the
\* total exposure plus s within max_total_exposure; with no headroom left
\* under either cap the trade is rejected with size 0.
C32_ExposureCaps ==
    ev.op = "evaluate_trade" =>
        /\ ev.allow =>
              /\ ev.size > 0
              /\ Abs(PositionAfter(ev)) <= max_position_per_symbol * MultScale
              /\ TotalExposure(ev.positions) * MultScale + ev.size
                     <= max_total_exposure * MultScale
        /\ (\/ max_position_per_symbol - Abs(ev.positions[ev.proposal.symbol]) <= 0
            \/ max_total_exposure - TotalExposure(ev.positions) <= 0) =>
              (~ev.allow /\ ev.size = 0)
-----------------------------------------------------------------------------
(* OrderReconciler: STUCK is not terminal                                   *)

\* C33: a poll that finds a tracked order in state STUCK and gets the
\* order from the exchange sets the state to what _map_status gives for
\* the reported status and fill; the order does not stay STUCK.
C33_StuckNotTerminal ==
    [][(ev'.op = "poll" /\ ev'.answer = "order"
          /\ orders[ev'.proposal_id].state = "STUCK") =>
          /\ orders'[ev'.proposal_id].state =
                 map_status(ev'.status, Abs(ev'.filled_size))
          /\ orders'[ev'.proposal_id].state # "STUCK"]_vars

\* an order that was STUCK has been polled as filled and is FILLED
C33_Witness ==
    /\ ev.op = "poll"
    /\ ev.answer = "order"
    /\ ev.was = "STUCK"
    /\ ev.status = "filled"
    /\ orders[ev.proposal_id].state = "FILLED"

\* C34: _map_status is total and case-insensitive, and its result follows
\* the precedence CANCEL, REJECT, FILL, PART, filled_size > 0, the five
\* open words, UNKNOWN; it never returns PENDING or STUCK.
StatusHas(word) == contains(upper(rin.status), word)

OpenWords == {"OPEN", "NEW", "PENDING", "LIVE", "WORKING"}

C34_Expected ==
    CASE StatusHas("CANCEL") -> "CANCELLED"
      [] ~StatusHas("CANCEL") /\ StatusHas("REJECT") -> "REJECTED"
      [] ~StatusHas("CANCEL") /\ ~StatusHas("REJECT") /\ StatusHas("FILL") -> "FILLED"
      [] /\ ~StatusHas("CANCEL") /\ ~StatusHas("REJECT") /\ ~StatusHas("FILL")
         /\ (StatusHas("PART") \/ rin.filled > 0) -> "PARTIAL"
      [] /\ ~StatusHas("CANCEL") /\ ~StatusHas("REJECT") /\ ~StatusHas("FILL")
         /\ ~StatusHas("PART") /\ ~(rin.filled > 0)
         /\ upper(rin.status) \in OpenWords -> "SUBMITTED"
      [] OTHER -> "UNKNOWN"

C34_MapStatusPrecedence ==
    (unit = "map_status" /\ ev.op = "map_status") =>
        /\ ev.result = C34_Expected
        /\ ev.result \in {"CANCELLED", "REJECTED", "FILLED", "PARTIAL",
                           "SUBMITTED", "UNKNOWN"}
        /\ ev.result \notin {"PENDING", "STUCK"}
        /\ \A other \in StatusStrings :
               upper(other) = upper(rin.status) =>
                   map_status(other, rin.filled) = ev.result

C34_Witness ==
    /\ unit = "map_status" /\ ev.op = "map_status"
    /\ rin.status = "Partially_Filled" /\ rin.filled > 0
    /\ ev.result = "FILLED"

\* C35: initialization of LighterApiClient is serialized. Whatever the
\* interleaving of the calling tasks, init reaches _initialized = True at
\* most once and the client is never replaced afterwards; a call that
\* arrives while init is running waits and builds nothing; every method
\* that goes on after init uses the one initialized client; a failed init
\* leaves _initialized False and the lock free, and the next task to enter
\* init while the client is uninitialized attempts the initialization again.
EntersInit(e) ==
    e.op \in {"api_call", "lock_wake"} /\ e.result # "waiting"

C35_InitSerialized ==
    [][/\ api'.succeeded <= 1
       /\ api.initialized => (api'.initialized /\ api'.client = api.client)
       /\ Cardinality({k \in ApiTasks : api'.pc[k] = "init_client"}) <= 1
       /\ (ev'.op = "api_call" /\ api.locked) =>
              /\ api'.pc[ev'.by] = "wait_lock"
              /\ api'.built = api.built /\ api'.client = api.client
       /\ \A k \in ApiTasks :
              api'.pc[k] = "using" =>
                  /\ api'.initialized
                  /\ api'.c[k] = api'.client /\ api'.c[k] # 0
       /\ ev'.op = "init_failed" => (~api'.initialized /\ ~api'.locked)
       /\ (EntersInit(ev') /\ ~api.initialized) =>
              ev'.result \in {"constructing", "import_error", "constructor_raised"}
       /\ (EntersInit(ev') /\ api.initialized) =>
              (ev'.result = "reused" /\ api'.built = api.built)]_vars

\* a task that waited for the lock during a successful initialization, which
\* itself came after a failed one, goes on with the client of another task
C35_Witness ==
    /\ unit = "api"
    /\ ev.op = "lock_wake" /\ ev.result = "reused"
    /\ api.built >= 2 /\ api.succeeded = 1
    /\ \E k \in ApiTasks \ {ev.by} :
          api.pc[k] = "using" /\ api.c[k] = api.c[ev.by]

\* C36: with two concurrent executes of distinct proposal_ids next to the
\* reconciliation polls, track_submitted files the order under the
\* execution's proposal_id with its client_order_id and order_id; when the
\* execution returns its result the record under its proposal_id still
\* carries that client_order_id and order_id; a poll keeps the identity of
\* the record it updates; and no step changes the record of a proposal_id
\* other than the one it is about.
TouchedBy(e) ==
    IF e.op \in {"track_submitted", "poll"} THEN {e.proposal_id} ELSE {}

C36_OwnRecordOnly ==
    [][/\ \A q \in ProposalIds \ TouchedBy(ev') : orders'[q] = orders[q]
       /\ ev'.op = "track_submitted" =>
             LET me == tasks[ev'.task]
                 cur == orders'[me.proposal.proposal_id]
             IN  /\ ev'.proposal_id = me.proposal.proposal_id
                 /\ cur.proposal_id = me.proposal.proposal_id
                 /\ cur.client_order_id = me.client_order_id
                 /\ cur.order_id = ev'.order_id
                 /\ tasks'[ev'.task].res.order_id = ev'.order_id
                 /\ tasks'[ev'.task].res.client_order_id = me.client_order_id
       /\ (ev'.op = "execute_return" /\ ev'.why = "ok") =>
             LET res == ev'.result
                 cur == orders'[res.proposal_id]
             IN  /\ res.proposal_id = tasks[ev'.task].proposal.proposal_id
                 /\ cur # None
                 /\ cur.proposal_id = res.proposal_id
                 /\ cur.client_order_id = res.client_order_id
                 /\ cur.order_id = res.order_id
       /\ (ev'.op = "poll" /\ ev'.answer = "order") =>
             LET was == orders[ev'.proposal_id]
                 cur == orders'[ev'.proposal_id]
             IN  /\ cur.proposal_id = was.proposal_id
                 /\ cur.client_order_id = was.client_order_id
                 /\ cur.order_id = was.order_id]_vars

\* a poll of p1, the only order of its snapshot, updates p1's record after
\* p2 was tracked by the other execute, which has not returned yet; p2's
\* record is as track_submitted wrote it
C36_Witness ==
    /\ unit = "tracking"
    /\ ev.op = "poll" /\ ev.answer = "order" /\ ev.proposal_id = "p1"
    /\ rec.pc = "idle"
    /\ order_keys = <<"p1", "p2">>
    /\ orders["p1"].state = "FILLED"
    /\ orders["p2"] = TrackedOrder("p2", "BTC", "p2", orders["p2"].order_id)
    /\ orders["p2"].order_id # orders["p1"].order_id
    /\ tasks[2].pc = "store"

\* C37: a failure on one order is isolated within a pass of reconcile_once.
\* When the query for a tracked order raises, no record changes; the pass
\* goes on with the orders that follow in its snapshot, at the same now_ts,
\* or returns normally if there is none; and an order polled in a pass is
\* updated from its answer whatever happened to the orders before it.
C37_FailureIsolated ==
    [][/\ (ev'.op = "poll" /\ ev'.answer = "error") =>
             /\ orders' = orders
             /\ order_keys' = order_keys
             /\ rec.pc = "polling" /\ Head(rec.pending).proposal_id = ev'.proposal_id
             /\ IF Len(rec.pending) > 1
                THEN /\ rec'.pc = "polling"
                     /\ rec'.pending = Tail(rec.pending)
                     /\ rec'.now_ts = rec.now_ts
                ELSE rec' = IdleReconciler
       /\ (ev'.op = "poll" /\ ev'.answer = "order") =>
             LET cur == orders[ev'.proposal_id]
             IN  /\ Head(rec.pending).proposal_id = ev'.proposal_id
                 /\ orders'[ev'.proposal_id].last_status = upper(ev'.status)
                 /\ orders'[ev'.proposal_id].filled_size = Abs(ev'.filled_size)
                 /\ orders'[ev'.proposal_id].last_update_ts = rec.now_ts]_vars

\* the query for p1 raised in a pass over p1 and p2: p1's record is as it
\* was tracked, and the pass is about to poll p2
C37_Witness ==
    /\ unit = "tracking"
    /\ ev.op = "poll" /\ ev.answer = "error" /\ ev.proposal_id = "p1"
    /\ orders["p1"].last_status = "UNKNOWN" /\ orders["p1"].state = "SUBMITTED"
    /\ rec.pc = "polling"
    /\ Len(rec.pending) = 1 /\ Head(rec.pending).proposal_id = "p2"
    /\ orders["p2"] # None

\* C38: when the exchange returns no order for the client_order_id of a
\* tracked order, the poll leaves the record as it is: state, last_status,
\* filled_size, avg_price, last_update_ts and order_id keep their values,
\* at every such poll.
C38_NoOrderNoChange ==
    [][(ev'.op = "poll" /\ ev'.answer = "none") =>
          LET was == orders[ev'.proposal_id]
              cur == orders'[ev'.proposal_id]
          IN  /\ was # None
              /\ cur.state = was.state
              /\ cur.last_status = was.last_status
              /\ cur.filled_size = was.filled_size
              /\ cur.avg_price = was.avg_price
              /\ cur.last_update_ts = was.last_update_ts
              /\ cur.order_id = was.order_id
              /\ orders' = orders]_vars

\* an order found partially filled by the pass at time 0 is not found by a
\* pass made after the clock moved on: the record still shows the first pass
C38_Witness ==
    /\ unit = "reconciler"
    /\ ev.op = "poll" /\ ev.answer = "none" /\ ev.now_ts > 0
    /\ orders[ev.proposal_id].state = "PARTIAL"
    /\ orders[ev.proposal_id].last_status = "OPEN"
    /\ orders[ev.proposal_id].filled_size = 504
    /\ orders[ev.proposal_id].last_update_ts = 0

\* C39: run_forever stops. A pass of reconcile_once starts only while
\* kill_event is not set; a pass in progress when kill_event is set is
\* carried to its end, order by order, and run_forever returns only between
\* passes and only with kill_event set; having returned it starts nothing.
\* If the awaited queries return, kill_event being set leads to the return of
\* run_forever, and while kill_event is not set passes keep being started.
C39_RunForeverSteps ==
    /\ ev'.op = "reconcile_once" => (~kill_event /\ rec.pc = "idle")
    /\ (rec.pc = "polling" /\ kill_event') =>
           \/ rec' = rec
           \/ rec' = next_item(rec)
    /\ rec'.pc = "exited" =>
           /\ rec.pc \in {"idle", "exited"}
           /\ kill_event
    /\ rec.pc = "exited" => (rec' = rec /\ ev'.op \notin {"reconcile_once", "poll"})
    /\ kill_event => kill_event'

C39_RunForeverStops ==
    /\ [][C39_RunForeverSteps]_vars
    /\ (kill_event ~> rec.pc = "exited")
    /\ []<>(kill_event \/ ev.op = "reconcile_once")

\* kill_event was set during a pass; the pass polled its order to the end
\* and run_forever returned at its next test of kill_event
C39_Witness ==
    /\ unit = "reconciler"
    /\ ev.op = "run_forever_exit" /\ ev.after = "poll"
    /\ rec.pc = "exited" /\ kill_event
    /\ orders["p2"] # None /\ orders["p2"].last_status # "UNKNOWN"

\* C40: an evaluate_trade that finds the portfolio's total PnL at or below
\* the daily loss limit rejects the trade with size 0 and leaves the
\* kill-switch on; and the kill-switch is tested before any sizing: a call
\* made with the kill-switch on returns (False, 0, "Kill switch active")
\* with no multiplier computed, the state changed only by update_drawdown
\* and update_cpm_state.
C40_DailyLossAndKillFirst ==
    [][ev'.op = "evaluate_trade" =>
         /\ ev'.total_pnl <= daily_loss_limit =>
               /\ ~ev'.allow /\ ev'.size = 0
               /\ rb'.kill_switch_active
         /\ (ev'.total_pnl <= daily_loss_limit /\ ~rb.kill_switch_active) =>
               /\ ev'.reason = "Daily loss limit breached"
               /\ ev'.combined_mult = "none"
         /\ rb.kill_switch_active =>
               /\ ~ev'.allow /\ ev'.size = 0
               /\ ev'.reason = "Kill switch active"
               /\ ev'.combined_mult = "none"
               /\ rb' = update_cpm_state(update_drawdown(rb, ev'.total_pnl), now)]_vars

\* a loss exactly at the limit, met with the kill-switch off, trips it
C40_Witness ==
    /\ ev.op = "evaluate_trade"
    /\ ~ev.kill_before
    /\ ev.total_pnl = daily_loss_limit
    /\ ev.reason = "Daily loss limit breached"
    /\ ~ev.allow /\ ev.size = 0
    /\ rb.kill_switch_active

====
